---- MODULE Spec2Model ----
(***************************************************************************)
(* Model of the resilient upstream-fetch core of lider-api: the Rate       *)
(* Governor goroutine and its permit channel, the retrying transport       *)
(* (AdvancedScraper.makeRequest) with its identity rotation, and the       *)
(* tiered operations built on it (fetch*Advanced: API tier, scraping       *)
(* tier, local fallback).                                                  *)
(*                                                                         *)
(* Time is discrete (one unit = one second).  Timers count down under      *)
(* Tick and a sleeper may resume any time after its timer has reached 0    *)
(* (time.Sleep pauses "at least" the duration).  Observer clocks count up  *)
(* and saturate at the largest constant they are compared with.            *)
(***************************************************************************)
EXTENDS Integers, Sequences, FiniteSets, TLC

\* ------------------------------------------------------------ bounds
NWorkers == 2
MaxRedirs == 6
MaxPages == 4
MaxRecs == 2
MaxTermLen == 3

\* ------------------------------------------------- program constants
Interval == 2
NumUA == 6
RedirectLimit == 5
RetryDelays == << 1, 3, 7, 15 >>

Workers == 1..NWorkers

Min(a, b) == IF a < b THEN a ELSE b
Max(a, b) == IF a > b THEN a ELSE b

\* ------------------------------------------------------------- state
VARIABLES
    chan,        \* number of permits buffered in rateLimiter (capacity 1)
    gpc,         \* permit goroutine: "send" (at the channel send) or "sleep"
    grem,        \* permit goroutine: seconds left of its time.Sleep
    currentUA,   \* AdvancedScraper.currentUA
    active,      \* the workers that serve requests in this specification
    scenario,    \* what the upstream does: "any", "flaky" or "healthy"
    mpc,         \* per worker: position inside makeRequest
    urlOK,       \* per worker: http.NewRequest accepts the call's URL
    attempt,     \* per worker: the loop variable attempt
    lastErr,     \* per worker: the local lastErr
    rem,         \* per worker: seconds left of the backoff time.Sleep
    ua,          \* per worker: the s.currentUA value read for the increment
    used,        \* observer "rot", per worker: the identity the attempt carries
    trail,       \* observer "seq": the identities of the latest attempts,
                 \* oldest first, at most NumUA + 1 of them
    got,         \* per worker: what client.Do and io.ReadAll returned
    res,         \* per worker: what makeRequest returned
    waited,      \* observer, per worker: seconds slept in the current backoff
    rotations,   \* observer: increments of currentUA so far, modulo NumUA
    batch,       \* observer: the callers that were waiting for a permit when
                 \* the current batch got its first one, and still wait
    batchK,      \* observer: permits the current batch has received
    clk,         \* observer clocks: seconds since the last permit ("permit"),
                 \* since the last attempt started ("send"), since the
                 \* batch's first permit ("batch")
    watch,       \* the observers this specification runs, among the clocks
                 \* and "rot" (rotations): the others stay as they start
    op,          \* per worker: the core operation it serves, or "none"
    opc,         \* per worker: position inside the operation
    cand,        \* per worker: index of the API endpoint being tried
    apiErr,      \* per worker: the error the API tier left (err, or
                 \* apiResult.Error), and whether that err is nil
    scrErr,      \* per worker: the Error of the scraping tier's result
    out,         \* per worker: what the operation returned to its handler
    fn,          \* the function applied to arg, "" before it is applied
    arg,         \* the input of a function checked on its own
    val,         \* what fn returned for arg
    ppc,         \* paginating fetchProducts: position
    page,        \* paginating fetchProducts: the loop variable p
    nbPages,     \* paginating fetchProducts: r.NbPages of page 1
    all,         \* paginating fetchProducts: the slice all
    asked,       \* observer: requests sent so far for each page
    served,      \* observer: the records each page was parsed to
    lost,        \* observer: the pages whose request or parse failed
    tally,       \* observer "count", per worker: the attempts sent and the
                 \* permits taken for the operation it serves
    advancedScraper, \* the package variable: 0 for nil, else the instance
    scraperOnce, \* the sync.Once: its done flag and the holder of its mutex
    gpos,        \* per worker: position inside getAdvancedScraper
    holds,       \* per worker: the instance getAdvancedScraper returned
    built        \* observer: calls of NewAdvancedScraper so far

gov == << chan, gpc, grem >>
call == << mpc, urlOK, attempt, lastErr, rem, ua, used, got, res >>
pure == << fn, arg, val >>
pages == << ppc, page, nbPages, all, asked, served, lost >>
singleton == << advancedScraper, scraperOnce, gpos, holds, built >>
side == << pure, pages, trail, tally, singleton >>
obs == << waited, rotations, batch, batchK, clk, watch, side >>
orch == << op, opc, cand, apiErr, scrErr, out >>
scraper == << gov, currentUA, active, scenario, call, waited, rotations, batch,
              batchK, clk, watch, orch, trail, tally, singleton >>
vars == << chan, gpc, grem, currentUA, active, scenario, mpc, urlOK, attempt,
           lastErr, rem, ua, used, got, res, waited, rotations, batch, batchK,
           clk, watch, op, opc, cand, apiErr, scrErr, out, fn, arg, val, ppc,
           page, nbPages, all, asked, served, lost, trail, tally,
           advancedScraper, scraperOnce, gpos, holds, built >>

\* Nothing sent and no permit taken yet.
NoTally == [attempts |-> 0, permits |-> 0]

\* ---------------------------------------------------- observer clocks
ClockCap(c) == IF c = "batch" THEN NWorkers * Interval ELSE Interval

Clocks == {"permit", "send", "batch"}

Watching(c) == c \in watch

Restart(f, c) == IF Watching(c) THEN [f EXCEPT ![c] = 0] ELSE f

Advance(f) ==
    [c \in Clocks |-> IF Watching(c) THEN Min(ClockCap(c), f[c] + 1) ELSE f[c]]

\* ------------------------------------------------- upstream answers
Statuses == {200, 429, 500, 503}
Bodies == {"marker", "garbage", "scalar", "empty", "records"}

\* One upstream answer to one attempt: a transport failure (net), or a chain
\* of redirs redirects (the qat-th of them to the queue-it host, 0 = none)
\* ending in a response whose body may fail to be read.
Answer(net, redirs, qat, readOK, status, body) ==
    [net |-> net, redirs |-> redirs, qat |-> qat, readOK |-> readOK,
     status |-> status, body |-> body]

Answers ==
    {Answer(TRUE, 0, 0, TRUE, 200, "records")}
    \cup {Answer(FALSE, 0, 0, FALSE, 200, "records")}
    \cup {Answer(FALSE, r, q, TRUE, 200, "records") :
              r \in 1..MaxRedirs, q \in 0..MaxRedirs}
    \cup {Answer(FALSE, 0, 0, TRUE, s, b) : s \in Statuses, b \in Bodies}

HealthyAnswers == {Answer(FALSE, 0, 0, TRUE, 200, "records")}

FlakyAnswers == HealthyAnswers \cup {Answer(TRUE, 0, 0, TRUE, 200, "records")}

\* An upstream that fails at the network, or answers 200 or 500 with any
\* body.
PlainAnswers ==
    {Answer(TRUE, 0, 0, TRUE, 200, "records")}
      \cup {Answer(FALSE, 0, 0, TRUE, s, b) : s \in {200, 500}, b \in Bodies}

UpstreamAnswers ==
    CASE scenario = "healthy" -> HealthyAnswers
      [] scenario = "flaky" -> FlakyAnswers
      [] scenario = "plain" -> PlainAnswers
      [] OTHER -> Answers

\* ------------------------------------------------------ the transport
MaxAttempts == Len(RetryDelays) + 1

NoRes == [ok |-> FALSE, status |-> 0, body |-> "", err |-> << >>]

NoResp == [err |-> "nil", status |-> 0, body |-> ""]

\* CheckRedirect(req, via): toQueueIt is strings.Contains(req.URL.Host,
\* "queue-it.net"), lenVia is len(via).
CheckRedirect(toQueueIt, lenVia) ==
    IF toQueueIt THEN "queueit"
    ELSE IF lenVia >= RedirectLimit THEN "redirects"
    ELSE "nil"

\* s.client.Do(req) followed by io.ReadAll(resp.Body): the error, or "nil"
\* with the response.  The k-th redirect is checked with len(via) = k.
ClientDo(o) ==
    LET refused == {k \in 1..o.redirs : CheckRedirect(k = o.qat, k) # "nil"}
        first == CHOOSE k \in refused : \A j \in refused : k <= j
    IN  IF o.net THEN [NoResp EXCEPT !.err = "net"]
        ELSE IF refused # {}
            THEN [NoResp EXCEPT !.err = CheckRedirect(first = o.qat, first)]
        ELSE IF ~o.readOK THEN [NoResp EXCEPT !.err = "read"]
        ELSE [err |-> "nil", status |-> o.status, body |-> o.body]

\* strings.Contains(bodyStr, "queue-it.net") || strings.Contains(bodyStr, "Queue-it")
HasMarker(body) == body = "marker"

\* A verdict that looks at the transport error and the status only.
ClassifyByStatus(r) ==
    IF r.err # "nil" THEN r.err
    ELSE IF r.status = 429 THEN "http429"
    ELSE IF r.status = 503 THEN "http503"
    ELSE "nil"

\* A verdict that lets a 503 through.
ClassifyOnly429(r) ==
    IF r.err # "nil" THEN r.err
    ELSE IF r.status = 429 THEN "http429"
    ELSE IF HasMarker(r.body) THEN "antibot"
    ELSE "nil"

\* A verdict that trusts nothing but a product list.
ClassifyOnlyRecords(r) ==
    IF r.err # "nil" THEN r.err
    ELSE IF r.status = 429 THEN "http429"
    ELSE IF r.status = 503 THEN "http503"
    ELSE IF r.body # "records" THEN "antibot"
    ELSE "nil"

\* A verdict that takes every 5xx status for an overload.
ClassifyRetrying5xx(r) ==
    IF r.err # "nil" THEN r.err
    ELSE IF r.status = 429 THEN "http429"
    ELSE IF r.status >= 500 THEN "http503"
    ELSE IF HasMarker(r.body) THEN "antibot"
    ELSE "nil"

\* The per-attempt verdict of makeRequest on what client.Do and ReadAll
\* gave: "nil" to return the response, otherwise the value of lastErr.
Classify(r) ==
    IF r.err # "nil" THEN r.err
    ELSE IF r.status = 429 THEN "http429"
    ELSE IF r.status = 503 THEN "http503"
    ELSE IF HasMarker(r.body) THEN "antibot"
    ELSE "nil"

\* A backoff that does not grow.
FlatDelay(a) == RetryDelays[1]

\* time.Sleep(s.retryDelays[attempt-1]) before attempt number a (0-based).
BackoffDelay(a) == RetryDelays[a]

\* `for attempt := 0; attempt < len(s.retryDelays)+1; attempt++`
LoopContinues(a) == a < MaxAttempts

\* A rotation that passes over an identity.
SkipUA(u) == (u + 2) % NumUA

\* (s.currentUA + 1) % len(s.userAgents)
NextUA(u) == (u + 1) % NumUA

\* The trail once one more attempt has carried identity u.
Trailed(t, u) ==
    IF Len(t) <= NumUA THEN Append(t, u) ELSE Append(Tail(t), u)

\* The permit goroutine: rateLimiter <- time.Now()
GovSend ==
    /\ gpc = "send"
    /\ chan = 0
    /\ chan' = 1
    /\ gpc' = "sleep"
    /\ grem' = Interval
    /\ UNCHANGED << currentUA, active, scenario, call, obs, orch >>

\* A permit goroutine that ends after its first sleep.
GovWakeOnce ==
    /\ gpc = "sleep"
    /\ grem = 0
    /\ gpc' = "end"
    /\ UNCHANGED << chan, grem, currentUA, active, scenario, call, obs, orch >>

\* The permit goroutine: time.Sleep(2 * time.Second) is over
GovWake ==
    /\ gpc = "sleep"
    /\ grem = 0
    /\ gpc' = "send"
    /\ UNCHANGED << chan, grem, currentUA, active, scenario, call, obs, orch >>

\* A caller (tryAPIEndpoint, scrapeSearchPage, scrapeProductPage) enters
\* makeRequest.
Enter(w, ok) ==
    /\ mpc[w] = "idle"
    /\ mpc' = [mpc EXCEPT ![w] = "acquire"]
    /\ urlOK' = [urlOK EXCEPT ![w] = ok]
    /\ attempt' = [attempt EXCEPT ![w] = 0]
    /\ lastErr' = [lastErr EXCEPT ![w] = "nil"]
    /\ res' = [res EXCEPT ![w] = NoRes]

Call(w) ==
    /\ w \in active
    /\ \E ok \in (IF scenario = "any" THEN BOOLEAN ELSE {TRUE}) : Enter(w, ok)
    /\ UNCHANGED << gov, currentUA, active, scenario, rem, ua, used, got, obs, orch >>

\* <-s.rateLimiter
Acquire(w) ==
    /\ mpc[w] = "acquire"
    /\ chan = 1
    /\ chan' = 0
    /\ mpc' = [mpc EXCEPT ![w] = "request"]
    /\ IF ~Watching("batch")
        THEN /\ clk' = Restart(clk, "permit")
             /\ UNCHANGED << batch, batchK >>
        ELSE IF w \in batch
        THEN /\ clk' = Restart(clk, "permit")
             /\ batch' = batch \ {w}
             /\ batchK' = batchK + 1
        ELSE IF batch = {}
        THEN /\ clk' = Restart(Restart(clk, "permit"), "batch")
             /\ batch' = {v \in Workers \ {w} : mpc[v] = "acquire"}
             /\ batchK' = 1
        ELSE /\ clk' = Restart(clk, "permit")
             /\ UNCHANGED << batch, batchK >>
    /\ UNCHANGED << gpc, grem, currentUA, active, scenario, urlOK, attempt,
                    lastErr, rem, ua, used, got, res, waited, rotations, watch, orch,
                    pure, pages, trail, singleton >>
    /\ tally' = IF Watching("count")
                  THEN [tally EXCEPT ![w].permits = @ + 1] ELSE tally

\* The backoff sleep is over.
WakeAndQueue(w) ==
    /\ mpc[w] = "sleep"
    /\ rem[w] = 0
    /\ mpc' = [mpc EXCEPT ![w] = "acquire"]
    /\ UNCHANGED << gov, currentUA, active, scenario, urlOK, attempt, lastErr,
                    rem, ua, used, got, res, obs, orch >>

Wake(w) ==
    /\ mpc[w] = "sleep"
    /\ rem[w] = 0
    /\ mpc' = [mpc EXCEPT ![w] = "request"]
    /\ UNCHANGED << gov, currentUA, active, scenario, urlOK, attempt, lastErr,
                    rem, ua, used, got, res, obs, orch >>

\* http.NewRequest, then the read of s.currentUA for the increment.
NewRequest(w) ==
    /\ mpc[w] = "request"
    /\ IF urlOK[w]
        THEN /\ ua' = [ua EXCEPT ![w] = currentUA]
             /\ mpc' = [mpc EXCEPT ![w] = "rotate"]
             /\ res' = res
        ELSE /\ mpc' = [mpc EXCEPT ![w] = "done"]
             /\ res' = [res EXCEPT ![w] =
                          [NoRes EXCEPT !.err = << "failed to create request" >>]]
             /\ ua' = ua
    /\ waited' = [waited EXCEPT ![w] = 0]
    /\ UNCHANGED << gov, currentUA, active, scenario, urlOK, attempt, lastErr,
                    rem, used, got, rotations, batch, batchK, clk, watch, orch, side >>

\* The write of s.currentUA = (s.currentUA + 1) % len(s.userAgents)
Rotate(w) ==
    /\ mpc[w] = "rotate"
    /\ currentUA' = NextUA(ua[w])
    /\ ua' = [ua EXCEPT ![w] = 0]
    /\ mpc' = [mpc EXCEPT ![w] = "send"]
    /\ rotations' = IF Watching("rot") THEN (rotations + 1) % NumUA ELSE rotations
    /\ UNCHANGED << gov, active, scenario, urlOK, attempt, lastErr, rem, used,
                    got, res, waited, batch, batchK, clk, watch, orch, side >>

\* req.Header.Set("User-Agent", s.userAgents[s.currentUA]) and the start of
\* s.client.Do(req).
Send(w) ==
    /\ mpc[w] = "send"
    /\ used' = IF Watching("rot") THEN [used EXCEPT ![w] = currentUA] ELSE used
    /\ trail' = IF Watching("seq") THEN Trailed(trail, currentUA) ELSE trail
    /\ tally' = IF Watching("count")
                  THEN [tally EXCEPT ![w].attempts = @ + 1] ELSE tally
    /\ mpc' = [mpc EXCEPT ![w] = "await"]
    /\ clk' = Restart(clk, "send")
    /\ UNCHANGED << gov, currentUA, active, scenario, urlOK, attempt, lastErr,
                    rem, ua, got, res, waited, rotations, batch, batchK, watch, orch,
                    pure, pages, singleton >>

\* A loop that keeps the first error it met.
FailKeepingFirst(w, e) ==
    /\ lastErr' = [lastErr EXCEPT ![w] = IF lastErr[w] = "nil" THEN e ELSE lastErr[w]]
    /\ attempt' = [attempt EXCEPT ![w] = attempt[w] + 1]
    /\ IF LoopContinues(attempt[w] + 1)
        THEN /\ mpc' = [mpc EXCEPT ![w] = "sleep"]
             /\ rem' = [rem EXCEPT ![w] = BackoffDelay(attempt[w] + 1)]
             /\ res' = res
        ELSE /\ mpc' = [mpc EXCEPT ![w] = "done"]
             /\ rem' = rem
             /\ res' = [res EXCEPT ![w] =
                          [NoRes EXCEPT !.err = << "max retries exceeded", lastErr'[w] >>]]

\* `lastErr = ...; continue`: the next iteration's loop test and, when the
\* loop goes on, the start of its backoff sleep; otherwise the final return.
Fail(w, e) ==
    /\ lastErr' = [lastErr EXCEPT ![w] = e]
    /\ attempt' = [attempt EXCEPT ![w] = attempt[w] + 1]
    /\ IF LoopContinues(attempt[w] + 1)
        THEN /\ mpc' = [mpc EXCEPT ![w] = "sleep"]
             /\ rem' = [rem EXCEPT ![w] = BackoffDelay(attempt[w] + 1)]
             /\ res' = res
        ELSE /\ mpc' = [mpc EXCEPT ![w] = "done"]
             /\ rem' = rem
             /\ res' = [res EXCEPT ![w] =
                          [NoRes EXCEPT !.err = << "max retries exceeded", e >>]]

\* s.client.Do(req) returns and the body is read.
Recv(w) ==
    /\ mpc[w] = "await"
    /\ \E o \in UpstreamAnswers : got' = [got EXCEPT ![w] = ClientDo(o)]
    /\ mpc' = [mpc EXCEPT ![w] = "classify"]
    /\ UNCHANGED << gov, currentUA, active, scenario, urlOK, attempt, lastErr,
                    rem, ua, used, res, obs, orch >>

\* The attempt that gave r is classified: `continue`, or
\* `return resp, body, nil`.
JudgeOn(w, r) ==
    /\ LET e == Classify(r)
       IN  IF e # "nil"
             THEN Fail(w, e)
             ELSE /\ mpc' = [mpc EXCEPT ![w] = "done"]
                  /\ res' = [res EXCEPT ![w] =
                               [ok |-> TRUE, status |-> r.status,
                                body |-> r.body, err |-> << >>]]
                  /\ UNCHANGED << attempt, lastErr, rem >>
    /\ got' = [got EXCEPT ![w] = NoResp]
    /\ UNCHANGED << gov, currentUA, active, scenario, urlOK, ua, used, obs, orch >>

Judge(w) ==
    /\ mpc[w] = "classify"
    /\ JudgeOn(w, got[w])

\* Recv and Judge in one step, for the specifications that do not look
\* between the two.
RecvJudge(w) ==
    /\ mpc[w] = "await"
    /\ \E o \in UpstreamAnswers : JudgeOn(w, ClientDo(o))

\* makeRequest has returned to its caller, which is done with the result.
Return(w) ==
    /\ mpc[w] = "done"
    /\ mpc' = [mpc EXCEPT ![w] = "idle"]
    /\ res' = [res EXCEPT ![w] = NoRes]
    /\ attempt' = [attempt EXCEPT ![w] = 0]
    /\ lastErr' = [lastErr EXCEPT ![w] = "nil"]
    /\ used' = [used EXCEPT ![w] = 0]
    /\ UNCHANGED << gov, currentUA, active, scenario, urlOK, rem, ua, got, obs, orch >>

\* One second passes.
Tick ==
    /\ grem' = Max(0, grem - 1)
    /\ rem' = [w \in Workers |-> Max(0, rem[w] - 1)]
    /\ waited' = [w \in Workers |->
                    IF mpc[w] = "sleep"
                        THEN Min(BackoffDelay(attempt[w]), waited[w] + 1)
                        ELSE waited[w]]
    /\ clk' = Advance(clk)
    /\ UNCHANGED << chan, gpc, currentUA, active, scenario, mpc, urlOK, attempt,
                    lastErr, ua, used, got, res, rotations, batch, batchK, watch, orch, side >>

\* ------------------------------------------------ local suggestions
\* The letters the sample terms are spelled with, and the terms a caller
\* may pass: every word of at most MaxTermLen letters, and some longer or
\* differently cased ones that begin with each prefix of the table.
Letters == {"l", "e", "c", "a", "x"}

RECURSIVE Words(_)
Words(n) ==
    IF n = 0 THEN {""}
    ELSE LET shorter == Words(n - 1)
         IN  shorter \cup {w \o c : w \in shorter, c \in Letters}

Terms ==
    Words(MaxTermLen) \cup
    {"leche", "pan", "pan molde", "arroz", "carne", "pollo", "queso",
     "huevos", "yogurt", "mango", "cerveza", "LEC", "Pan", "pa", "ce",
     "xpan", " lec", "le c"}

\* commonSuggestions, the table of generateFallbackSuggestions.
commonSuggestions ==
    [p \in {"lec", "pan", "arr", "car", "pol", "que", "hue", "yog", "man", "cer"} |->
       CASE p = "lec" -> << "leche", "leche descremada", "leche entera",
                            "leche condensada", "lechuga" >>
         [] p = "pan" -> << "pan", "pan integral", "pan molde", "pan hallulla",
                            "panceta" >>
         [] p = "arr" -> << "arroz", "arroz grado 1", "arroz integral",
                            "arrollado" >>
         [] p = "car" -> << "carne", "carne molida", "carne vacuno", "carnitas",
                            "carbón" >>
         [] p = "pol" -> << "pollo", "pollo entero", "pollo trozado",
                            "pollo pechuga", "polenta" >>
         [] p = "que" -> << "queso", "queso gauda", "queso mantecoso",
                            "queso fresco", "queque" >>
         [] p = "hue" -> << "huevos", "huevos blancos", "huevos color",
                            "huevos codorniz" >>
         [] p = "yog" -> << "yogurt", "yogurt natural", "yogurt griego",
                            "yogurt light" >>
         [] p = "man" -> << "mantequilla", "manzana", "manjar", "mandarina",
                            "mango" >>
         [] p = "cer" -> << "cereal", "cerveza", "cernir", "cerdo" >>]

\* The generic list: the term followed by each fixed ending.
GenericSuggestions(term) ==
    << term \o " natural", term \o " light", term \o " premium",
       term \o " casero", term \o " integral" >>

\* A fallback that knows no table.
GenericOnly(term) == GenericSuggestions(term)

\* A fallback that finds nothing to suggest.
NoFallback(term) == << >>

\* generateFallbackSuggestions: the loop over the table returns the list of
\* a prefix equal to term[:3] (the keys are distinct, so at most one can
\* match whatever the iteration order); after the loop, the generic list.
generateFallbackSuggestions(term) ==
    LET hits == {p \in DOMAIN commonSuggestions :
                   Len(term) >= 3 /\ SubSeq(term, 1, 3) = p}
    IN  IF hits # {} THEN commonSuggestions[CHOOSE p \in hits : TRUE]
        ELSE GenericSuggestions(term)

\* ------------------------------------------------------ authentication
\* The apiKeyAuthMiddleware the server is built with: the repository holds
\* three, in middleware.go and in two files whose names are not known.
AuthVariants == {"middleware.go", "part_001", "part_003"}

\* API_KEY in the environment (unset reads as ""), the X-API-Key header of
\* a request (absent reads as ""), and the requests a client can make.
EnvKeys == {"", "secret"}
HeaderKeys == {"", "secret", "other"}
Methods == {"GET", "OPTIONS"}
Routes == {"/health", "/productos", "/suggestions", "/promotions",
           "/categories", "/product"}

\* What a handler behind the middleware may answer with.
HandlerCodes == {200, 400, 500}

\* Building the middleware: the third variant ends the process with
\* log.Fatal when API_KEY is not set.
MiddlewareStarts(v, env) == ~(v = "part_003" /\ env = "")

\* The middleware on one request: 0 for c.Next(), else the status of
\* c.AbortWithStatusJSON.
apiKeyAuthMiddleware(v, env, path, key) ==
    CASE v = "middleware.go" -> IF key # env THEN 401 ELSE 0
      [] v = "part_001" -> IF key = "" \/ key # env THEN 401 ELSE 0
      [] v = "part_003" -> IF path = "/health" THEN 0
                           ELSE IF key = "" THEN 401
                           ELSE IF key # env THEN 403
                           ELSE 0

\* One request through the router of main: the CORS function, the
\* middleware, then the route's handler, which answers hc.
ServeHTTP(v, env, method, path, key, hc) ==
    IF method = "OPTIONS"
      THEN [code |-> 204, by |-> "cors", status |-> ""]
    ELSE IF apiKeyAuthMiddleware(v, env, path, key) # 0
      THEN [code |-> apiKeyAuthMiddleware(v, env, path, key), by |-> "auth",
            status |-> ""]
    ELSE IF path = "/health"
      THEN [code |-> 200, by |-> "health", status |-> "ok"]
    ELSE [code |-> hc, by |-> "handler", status |-> ""]

\* ---------------------------------------------------- detail prices
\* The prices an upstream document may carry (0: absent or not positive).
Prices == {0, 990, 1000, 1500, 2000}

\* A discount as the exact quotient num / den, and equality of quotients.
Ratio(n, d) == [num |-> n, den |-> d]
RECURSIVE GCD(_, _)
GCD(a, b) == IF b = 0 THEN a ELSE GCD(b, a % b)

Lowest(r) ==
    LET g == GCD(IF r.num < 0 THEN -r.num ELSE r.num, r.den)
    IN  Ratio(r.num \div g, r.den \div g)

SameRatio(a, b) == Lowest(a) = Lowest(b)

\* Discount left at the zero value of float64.
NoDiscount == Ratio(0, 1)

\* ((Original - Current) / Original) * 100 when both are positive.
DerivedDiscount(c, o) ==
    IF o > 0 /\ c > 0 THEN Ratio(100 * (o - c), o) ELSE NoDiscount

\* The tier a ProductDetail comes from: the JSON of an API endpoint
\* (mapInterfaceToProductDetail), the JSON embedded in the product page
\* (mapToProductDetail), the patterns of the product page
\* (extractProductDetailFromHTMLPatterns), or the page read by the earlier
\* fetchProductDetailViaScraping.
DetailTiers == {"api", "page state", "page patterns", "scraping"}

\* Price of mapInterfaceToProductDetail: current and original are copied,
\* Discount is not assigned.
mapInterfaceToProductDetail(c, o) ==
    [current |-> c, original |-> o, discount |-> NoDiscount]

\* Price of mapToProductDetail: the same.
mapToProductDetail(c, o) ==
    [current |-> c, original |-> o, discount |-> NoDiscount]

\* Price of extractProductDetailFromHTMLPatterns: the one price found is
\* both Current and Original.
extractProductDetailFromHTMLPatterns(c) ==
    [current |-> c, original |-> c, discount |-> NoDiscount]

\* Price of fetchProductDetailViaScraping: a price is kept when it is
\* positive and the discount is derived.
fetchProductDetailViaScraping(c, o) ==
    [current |-> c, original |-> o, discount |-> DerivedDiscount(c, o)]

DetailPrice(tier, c, o) ==
    CASE tier = "api" -> mapInterfaceToProductDetail(c, o)
      [] tier = "page state" -> mapToProductDetail(c, o)
      [] tier = "page patterns" -> extractProductDetailFromHTMLPatterns(c)
      [] tier = "scraping" -> fetchProductDetailViaScraping(c, o)

\* ------------------------------------------------------ price strings
Digits == {"0", "1", "2", "3", "4", "5", "6", "7", "8", "9"}

DigitValue(c) ==
    CASE c = "0" -> 0 [] c = "1" -> 1 [] c = "2" -> 2 [] c = "3" -> 3
      [] c = "4" -> 4 [] c = "5" -> 5 [] c = "6" -> 6 [] c = "7" -> 7
      [] c = "8" -> 8 [] c = "9" -> 9

CharAt(s, i) == SubSeq(s, i, i)

RECURSIVE Pow10(_)
Pow10(k) == IF k = 0 THEN 1 ELSE 10 * Pow10(k - 1)

\* strings.ReplaceAll(s, old, new) for a one-character old.
RECURSIVE ReplaceAll(_, _, _)
ReplaceAll(s, old, new) ==
    IF s = "" THEN ""
    ELSE (IF CharAt(s, 1) = old THEN new ELSE CharAt(s, 1))
           \o ReplaceAll(SubSeq(s, 2, Len(s)), old, new)

\* strings.TrimSpace, for the space character.
RECURSIVE TrimSpace(_)
TrimSpace(s) ==
    IF s = "" THEN ""
    ELSE IF CharAt(s, 1) = " " THEN TrimSpace(SubSeq(s, 2, Len(s)))
    ELSE IF CharAt(s, Len(s)) = " " THEN TrimSpace(SubSeq(s, 1, Len(s) - 1))
    ELSE s

\* The number of leading decimal digits of s.
RECURSIVE DigitRun(_)
DigitRun(s) ==
    IF s = "" \/ CharAt(s, 1) \notin Digits THEN 0
    ELSE 1 + DigitRun(SubSeq(s, 2, Len(s)))

\* The number a string of decimal digits writes ("" writes 0).
RECURSIVE DigitsValue(_)
DigitsValue(s) ==
    IF s = "" THEN 0
    ELSE 10 * DigitsValue(SubSeq(s, 1, Len(s) - 1)) + DigitValue(CharAt(s, Len(s)))

\* The longest prefix of s that reads as digits[.digits]: its length and
\* its value.
ScanFloat(s) ==
    LET n == DigitRun(s)
        dot == n < Len(s) /\ CharAt(s, n + 1) = "."
        m == IF dot THEN DigitRun(SubSeq(s, n + 2, Len(s))) ELSE 0
    IN  [read |-> IF dot THEN n + 1 + m ELSE n,
         digits |-> n + m,
         value |-> Ratio(DigitsValue(SubSeq(s, 1, n) \o SubSeq(s, n + 2, n + 1 + m)),
                         Pow10(m))]

\* fmt.Sscanf(clean, "%f", &price): the number at the head of clean; price
\* keeps its zero value when there is none.
Sscanf(clean) ==
    IF ScanFloat(clean).digits = 0 THEN Ratio(0, 1) ELSE ScanFloat(clean).value

\* strconv.ParseFloat(priceStr, 64) under `err == nil`: the whole string
\* has to be a number; the price is not assigned otherwise.
ParseFloat(clean) ==
    IF ScanFloat(clean).digits = 0 \/ ScanFloat(clean).read # Len(clean)
      THEN Ratio(0, 1)
      ELSE ScanFloat(clean).value

\* A normalization that takes '.' for the decimal point.
parsePriceKeepingDots(priceStr) ==
    Sscanf(TrimSpace(ReplaceAll(ReplaceAll(priceStr, ",", ""), "$", "")))

\* parsePrice of fetchProductDetailViaScraping.
parsePrice(priceStr) ==
    Sscanf(TrimSpace(ReplaceAll(ReplaceAll(ReplaceAll(priceStr, ".", ""),
                                           ",", "."), "$", "")))

\* The price of extractProductsFromHTMLPatterns and
\* extractProductDetailFromHTMLPatterns, on the digits, commas and periods
\* their expressions capture.
PatternPrice(priceStr) ==
    ParseFloat(ReplaceAll(ReplaceAll(priceStr, ".", ""), ",", "."))

\* A number written with '.' between groups of three digits.
RECURSIVE Grouped(_)
Grouped(s) ==
    IF Len(s) <= 3 THEN s
    ELSE Grouped(SubSeq(s, 1, Len(s) - 3)) \o "." \o SubSeq(s, Len(s) - 2, Len(s))

\* Sample prices: the whole part, the decimals as written and as a
\* quotient, and the currency symbol in front.
Wholes == {0, 5, 990, 1000, 1234, 20005, 1234567}

Decimals ==
    {[digits |-> "", num |-> 0, den |-> 1],
     [digits |-> "5", num |-> 5, den |-> 10],
     [digits |-> "56", num |-> 56, den |-> 100],
     [digits |-> "05", num |-> 5, den |-> 100]}

Symbols == {"", "$", "$ "}

PriceText(symbol, whole, decimals) ==
    symbol \o Grouped(ToString(whole))
      \o (IF decimals.digits = "" THEN "" ELSE "," \o decimals.digits)

PriceInputs ==
    {[by |-> "parsePrice", text |-> PriceText(s, n, d), whole |-> n, decimals |-> d] :
        s \in Symbols, n \in Wholes, d \in Decimals}
    \cup
    {[by |-> "patterns", text |-> PriceText("", n, d), whole |-> n, decimals |-> d] :
        n \in Wholes, d \in Decimals}

\* ------------------------------------------------- product records
\* A record of an upstream document, by what it gives for the identifier
\* and for the display name ("" when the field is missing or empty).
Fields == {"", "x"}
Items == [id : Fields, name : Fields]

\* The documents: every list of at most MaxRecs records.
RECURSIVE ItemLists(_)
ItemLists(n) ==
    IF n = 0 THEN {<< >>}
    ELSE LET shorter == ItemLists(n - 1)
         IN  shorter \cup {Append(l, i) : l \in shorter, i \in Items}

\* The code a product list comes through: convertToProducts on the JSON of
\* the search API (a list, or an object with "products"), the state
\* embedded in the page (extractProductsFromHTML), the patterns of the
\* page (extractProductsFromHTMLPatterns), or the Response that
\* fetchPromotions and fetchCategory decode.
ProductTiers == {"api list", "api wrapper", "page state", "page patterns",
                 "direct"}

\* product.ID != "" || product.DisplayName != ""
HasIdOrName(i) == i.id # "" \/ i.name # ""

\* product.ID != ""
HasId(i) == i.id # ""

\* product.ID != "" && product.DisplayName != ""
HasIdAndName(i) == i.id # "" /\ i.name # ""

\* The list a tier builds from a document, and whether the caller gets it:
\* the search API's list is returned as it is, a page with no product is a
\* failure, an empty Response sends promotions and category to the page.
ProductsOf(tier, items) ==
    CASE tier \in {"api list", "api wrapper"} ->
           [surfaced |-> TRUE, products |-> SelectSeq(items, HasIdOrName)]
      [] tier = "page state" ->
           [surfaced |-> SelectSeq(items, HasId) # << >>,
            products |-> SelectSeq(items, HasId)]
      [] tier = "page patterns" ->
           [surfaced |-> SelectSeq(items, HasIdAndName) # << >>,
            products |-> SelectSeq(items, HasIdAndName)]
      [] tier = "direct" ->
           [surfaced |-> Len(items) > 0, products |-> items]

\* -------------------------------------------------------- orchestration
NoErr == [nil |-> TRUE, msg |-> << >>]

\* What a handler has to answer with: the (value, error) of fetch*Advanced,
\* the Source of the ScrapingResult behind it when there is one, the HTTP
\* status the handler sends, and, as an observer, the tier that produced
\* the value.
NoOut == [ok |-> FALSE, source |-> "", data |-> "", reason |-> << >>,
          panic |-> FALSE, tier |-> "", code |-> 0]

Ops == {"search", "detail", "suggestions", "promotions", "category"}

\* The parameter of a request: empty, an ordinary word, or a text that
\* url.Parse rejects when it is pasted into a URL unescaped.
Params == {"empty", "word", "unparsable"}

NumApiEndpoints == 3

\* What a tier hands back: *ScrapingResult, or (value, error).
Failed(msg) == [ok |-> FALSE, data |-> "", reason |-> msg]

Succeeded(d) == [ok |-> TRUE, data |-> d, reason |-> << >>]

\* A decoder that accepts nothing.
NothingParses(body) == FALSE

\* json.Unmarshal(body, &jsonData) succeeds: a scalar, an object whose
\* product list is empty, or an object with products.
IsJSON(body) == body \in {"scalar", "empty", "records"}

\* extractProductsFromHTML / extractProductDetailFromHTML find something.
HasProducts(body) == body = "records"

tryAPIEndpoint(r) ==
    IF ~r.ok THEN Failed(r.err)
    ELSE IF r.status # 200
        THEN Failed(<< "API returned status", ToString(r.status) >>)
    ELSE IF ~IsJSON(r.body) THEN Failed(<< "failed to parse JSON response" >>)
    ELSE Succeeded(r.body)

\* A page tier that returns the list it extracted even when it is empty.
scrapePageAsItIs(r) ==
    IF ~r.ok THEN Failed(r.err)
    ELSE IF r.status # 200
        THEN Failed(<< "search page returned status", ToString(r.status) >>)
    ELSE Succeeded(IF HasProducts(r.body) THEN "records" ELSE "empty")

scrapeSearchPage(r) ==
    IF ~r.ok THEN Failed(r.err)
    ELSE IF r.status # 200
        THEN Failed(<< "search page returned status", ToString(r.status) >>)
    ELSE IF ~HasProducts(r.body)
        THEN Failed(<< "no products found in search results" >>)
    ELSE Succeeded("records")

scrapeProductPage(r) ==
    IF ~r.ok THEN Failed(r.err)
    ELSE IF r.status # 200
        THEN Failed(<< "product page returned status", ToString(r.status) >>)
    ELSE IF ~HasProducts(r.body)
        THEN Failed(<< "could not extract product details from page" >>)
    ELSE Succeeded("records")

\* fetchSuggestions, fetchPromotions, fetchCategory on the answer o that
\* httpClient.Do gets: the default client follows the redirects, and the
\* body is decoded whatever it holds.
fetchDirect(o) ==
    IF o.net THEN Failed(<< "request failed" >>)
    ELSE IF ~o.readOK THEN Failed(<< "failed to read response body" >>)
    ELSE IF o.status # 200
        THEN Failed(<< "failed with status", ToString(o.status), o.body >>)
    ELSE IF o.body \notin {"empty", "records"}
        THEN Failed(<< "failed to parse JSON response" >>)
    ELSE Succeeded(o.body)

\* A conversion that accepts nothing.
convertNothing(d) == Failed(<< "unsupported data format" >>)

\* convertToProducts on the Data of a result: a JSON scalar matches no case
\* of the type switch and fails both Unmarshal tries.
convertToProducts(d) ==
    IF d = "scalar" THEN Failed(<< "unsupported data format" >>)
    ELSE Succeeded(d)

\* convertToProductDetail likewise.
convertToProductDetail(d) ==
    IF d = "scalar" THEN Failed(<< "failed to unmarshal to ProductDetail" >>)
    ELSE Succeeded(d)

\* fmt.Errorf("<prefix>: %w", err) around a failed conversion.
Wrapped(prefix, r) == IF r.ok THEN r ELSE Failed(<< prefix >> \o r.reason)

\* A tier gave r, its result carries Source source (only
\* FetchProductsAdvanced and FetchProductDetailAdvanced set one), and the
\* handler answers 200, or 500 when the conversion failed.
Returned(tier, source, r) ==
    [ok |-> r.ok, source |-> IF r.ok THEN source ELSE "",
     data |-> r.data, reason |-> r.reason, panic |-> FALSE,
     tier |-> IF r.ok THEN tier ELSE "", code |-> IF r.ok THEN 200 ELSE 500]

\* fetch*Advanced returned an error: the handler answers 500.
Refused(source, msg) ==
    [ok |-> FALSE, source |-> source, data |-> "", reason |-> msg,
     panic |-> FALSE, tier |-> "", code |-> 500]

\* An empty parameter answered like a failure of the upstream.
RejectedAsFailure(msg) ==
    [ok |-> FALSE, source |-> "", data |-> "", reason |-> msg,
     panic |-> FALSE, tier |-> "", code |-> 500]

\* The handler found its parameter empty: it answers 400 and calls nothing.
Rejected(msg) ==
    [ok |-> FALSE, source |-> "", data |-> "", reason |-> msg,
     panic |-> FALSE, tier |-> "", code |-> 400]

\* err.Error() on a nil error; gin's Recovery answers 500.
Panicked == [NoOut EXCEPT !.panic = TRUE, !.code = 500]

\* The handler's answer to an empty parameter.
RequiredMessage(o) ==
    CASE o = "search" -> "se requiere parametro 'q'"
      [] o = "detail" -> "se requiere parametro 'sku' o 'url'"
      [] o = "suggestions" -> "se requiere parametro 'term'"
      [] o = "promotions" -> "se requiere parametro 'type'"
      [] OTHER -> "se requiere parametro 'id'"

\* The error of fetch*Advanced for an empty parameter, which no handler
\* lets through.
EmptyMessage(o) ==
    CASE o = "search" -> "query parameter cannot be empty"
      [] o = "detail" -> "SKU parameter cannot be empty"
      [] o = "suggestions" -> "term parameter cannot be empty"
      [] o = "promotions" -> "promoType parameter cannot be empty"
      [] OTHER -> "categoryID parameter cannot be empty"

\* The frame of the steps that leave makeRequest alone.
TransportIdle ==
    UNCHANGED << gov, currentUA, active, scenario, mpc, attempt, lastErr, rem,
                 ua, used, got, res, obs >>

\* The caller takes what makeRequest returned.
TakeResult(w) ==
    /\ mpc' = [mpc EXCEPT ![w] = "idle"]
    /\ res' = [res EXCEPT ![w] = NoRes]
    /\ attempt' = [attempt EXCEPT ![w] = 0]
    /\ lastErr' = [lastErr EXCEPT ![w] = "nil"]
    /\ used' = [used EXCEPT ![w] = 0]
    /\ UNCHANGED << gov, currentUA, active, scenario, urlOK, rem, ua, got, obs >>

\* A handler reads its parameter, answers 400 when it is empty and
\* otherwise calls fetchProductsAdvanced, fetchProductDetailAdvanced,
\* fetchSuggestionsAdvanced, fetchPromotionsAdvanced or
\* fetchCategoryAdvanced.  Search escapes its query into the URL; the other
\* operations paste the parameter into the URLs of the scraper as it is.
Begin(w, o, p) ==
    /\ w \in active
    /\ opc[w] = "idle"
    /\ op' = [op EXCEPT ![w] = o]
    /\ urlOK' = [urlOK EXCEPT ![w] = (o = "search" \/ p = "word")]
    /\ IF p = "empty"
        THEN /\ opc' = [opc EXCEPT ![w] = "done"]
             /\ out' = [out EXCEPT ![w] = Rejected(<< RequiredMessage(o) >>)]
             /\ cand' = cand
        ELSE /\ opc' = [opc EXCEPT ![w] =
                          IF o \in {"search", "detail"} THEN "api" ELSE "direct"]
             /\ cand' = [cand EXCEPT ![w] =
                           IF o \in {"search", "detail"} THEN 1 ELSE 0]
             /\ out' = out
    /\ UNCHANGED << apiErr, scrErr >>

\* A request handed to its handler with nothing in front of it.
StartOp(w, o, p) ==
    /\ Begin(w, o, p)
    /\ TransportIdle

\* The operation behind each route of main.
RouteOp(path) ==
    CASE path = "/productos" -> "search"
      [] path = "/suggestions" -> "suggestions"
      [] path = "/promotions" -> "promotions"
      [] path = "/categories" -> "category"
      [] OTHER -> "detail"

\* A chain that goes on to the handler after the middleware has answered.
HandlerRunsAfterAbort(ans) == ans.by \in {"handler", "auth"}

\* gin calls the handler of the route when no function before it in the
\* chain has aborted or answered.
HandlerRuns(ans) == ans.by = "handler"

\* One request through the router of main, up to the first step of the
\* handler: the CORS function, the middleware, and the handler that reads
\* its parameter and calls fetch*Advanced.  The code of the answer is 0
\* while the handler has not answered.
ServeOp(w) ==
    /\ fn \in {"listening", "answered"}
    /\ w \in active
    /\ opc[w] = "idle"
    /\ fn' = "answered"
    /\ \E m \in Methods, p \in Routes, k \in HeaderKeys, q \in Params :
         LET ans == ServeHTTP(arg.variant, arg.env, m, p, k, 0)
         IN  /\ arg' = [arg EXCEPT !.method = m, !.path = p, !.key = k]
             /\ val' = ans
             /\ IF HandlerRuns(ans)
                  THEN /\ Begin(w, RouteOp(p), q)
                       /\ UNCHANGED << gov, currentUA, active, scenario, mpc,
                                       attempt, lastErr, rem, ua, used, got, res,
                                       waited, rotations, batch, batchK, clk,
                                       watch, pages, trail, tally, singleton >>
                  ELSE UNCHANGED << scraper, pages >>

\* tryAPIEndpoint, scrapeSearchPage or scrapeProductPage calls makeRequest.
OpCall(w) ==
    /\ opc[w] \in {"api", "scrape"}
    /\ Enter(w, urlOK[w])
    /\ UNCHANGED << gov, currentUA, active, scenario, rem, ua, used, got, obs,
                    orch >>

\* httpClient.Do(req) of fetchSuggestions, fetchPromotions, fetchCategory.
DirectSend(w) ==
    /\ opc[w] = "direct"
    /\ opc' = [opc EXCEPT ![w] = "directwait"]
    /\ UNCHANGED << op, cand, apiErr, scrErr, out, urlOK >>
    /\ TransportIdle

\* The end of fetchSuggestionsAdvanced(term) once fetchSuggestions has
\* returned d without a usable list: the local list when it is not empty,
\* else an error built from err.Error(), which panics on a nil err.
SuggestLocally(term, d) ==
    IF Len(generateFallbackSuggestions(term)) > 0
      THEN Returned("fallback", "", Succeeded("records"))
    ELSE IF d.ok THEN Panicked
    ELSE Refused("", << "suggestions failed" >> \o d.reason)

\* The direct fetch returns (list, err) and the caller decides: a non-empty
\* list is returned; otherwise suggestions fall back to the local table for
\* the term of the request, promotions and category go on to the scraper.
DirectRecv(w) ==
    /\ opc[w] = "directwait"
    /\ \E o \in UpstreamAnswers,
          term \in IF op[w] = "suggestions" THEN Terms \ {""} ELSE {""} :
         LET d == fetchDirect(o)
         IN  IF d.ok /\ d.data = "records"
               THEN /\ out' = [out EXCEPT ![w] = Returned("api", "", d)]
                    /\ opc' = [opc EXCEPT ![w] = "done"]
                    /\ apiErr' = apiErr
             ELSE IF op[w] = "suggestions"
               THEN /\ out' = [out EXCEPT ![w] = SuggestLocally(term, d)]
                    /\ opc' = [opc EXCEPT ![w] = "done"]
                    /\ apiErr' = apiErr
             ELSE /\ apiErr' = [apiErr EXCEPT ![w] =
                                  [nil |-> d.ok, msg |-> d.reason]]
                  /\ opc' = [opc EXCEPT ![w] = "scrape"]
                  /\ out' = out
    /\ UNCHANGED << op, cand, scrErr, urlOK >>
    /\ TransportIdle

\* The end of tryAPIEndpoint and what FetchProductsAdvanced or
\* FetchProductDetailAdvanced, and then the fetch*Advanced above it, do
\* with its result.
OpApi(w) ==
    /\ opc[w] = "api"
    /\ mpc[w] = "done"
    /\ LET r == tryAPIEndpoint(res[w])
           last == IF op[w] = "detail" THEN NumApiEndpoints ELSE 1
       IN  IF r.ok
             THEN /\ out' = [out EXCEPT ![w] =
                        Returned("api", "api",
                            IF op[w] = "detail"
                              THEN Wrapped("failed to convert product detail",
                                           convertToProductDetail(r.data))
                              ELSE Wrapped("failed to convert search results",
                                           convertToProducts(r.data)))]
                  /\ opc' = [opc EXCEPT ![w] = "done"]
                  /\ UNCHANGED << cand, apiErr >>
             ELSE /\ apiErr' = [apiErr EXCEPT ![w] =
                                  [nil |-> FALSE, msg |-> r.reason]]
                  /\ cand' = [cand EXCEPT ![w] =
                                IF cand[w] < last THEN cand[w] + 1 ELSE cand[w]]
                  /\ opc' = [opc EXCEPT ![w] =
                               IF cand[w] < last THEN "api" ELSE "scrape"]
                  /\ out' = out
    /\ UNCHANGED << op, scrErr >>
    /\ TakeResult(w)

\* The end of scrapeSearchPage or scrapeProductPage and what its caller
\* does with the result.
OpScrape(w) ==
    /\ opc[w] = "scrape"
    /\ mpc[w] = "done"
    /\ LET r == IF op[w] = "detail" THEN scrapeProductPage(res[w])
                                    ELSE scrapeSearchPage(res[w])
       IN  /\ scrErr' = [scrErr EXCEPT ![w] = r.reason]
           /\ out' = [out EXCEPT ![w] =
                CASE r.ok /\ op[w] = "detail" ->
                       Returned("scraping", "scraping",
                           Wrapped("failed to convert product detail",
                                   convertToProductDetail(r.data)))
                  [] r.ok /\ op[w] = "search" ->
                       Returned("scraping", "scraping",
                           Wrapped("failed to convert search results",
                                   convertToProducts(r.data)))
                  [] r.ok ->
                       Returned("scraping", "",
                           Wrapped("failed to convert " \o op[w] \o " results",
                                   convertToProducts(r.data)))
                  [] op[w] = "search" ->
                       Refused("none",
                           << "search failed", "API failed" >> \o apiErr[w].msg
                              \o << "Scraping failed" >> \o r.reason)
                  [] op[w] = "detail" ->
                       Refused("none",
                           << "product detail fetch failed",
                              "all methods failed - product may not exist or be blocked" >>)
                  [] apiErr[w].nil -> Panicked
                  [] OTHER ->
                       Refused("",
                           << op[w] \o " failed", "original API error" >>
                              \o apiErr[w].msg \o << "scraping error" >>
                              \o r.reason)]
    /\ opc' = [opc EXCEPT ![w] = "done"]
    /\ UNCHANGED << op, cand, apiErr >>
    /\ TakeResult(w)

\* The handler has answered; the worker is free again.
Finish(w) ==
    /\ opc[w] = "done"
    /\ op' = [op EXCEPT ![w] = "none"]
    /\ opc' = [opc EXCEPT ![w] = "idle"]
    /\ cand' = [cand EXCEPT ![w] = 0]
    /\ apiErr' = [apiErr EXCEPT ![w] = NoErr]
    /\ scrErr' = [scrErr EXCEPT ![w] = << >>]
    /\ out' = [out EXCEPT ![w] = NoOut]
    /\ tally' = [tally EXCEPT ![w] = NoTally]
    /\ UNCHANGED << urlOK, gov, currentUA, active, scenario, mpc, attempt,
                    lastErr, rem, ua, used, got, res, waited, rotations, batch,
                    batchK, clk, watch, pure, pages, trail, singleton >>

\* The state NewAdvancedScraper leaves: an empty channel, the permit
\* goroutine about to send, the rotation counter at 0.
InitCore(act, scen, observers) ==
    /\ chan = 0
    /\ gpc = "send"
    /\ grem = 0
    /\ currentUA = 0
    /\ active = act
    /\ scenario = scen
    /\ mpc = [w \in Workers |-> "idle"]
    /\ urlOK = [w \in Workers |-> TRUE]
    /\ attempt = [w \in Workers |-> 0]
    /\ lastErr = [w \in Workers |-> "nil"]
    /\ rem = [w \in Workers |-> 0]
    /\ ua = [w \in Workers |-> 0]
    /\ used = [w \in Workers |-> 0]
    /\ trail = << >>
    /\ got = [w \in Workers |-> NoResp]
    /\ res = [w \in Workers |-> NoRes]
    /\ waited = [w \in Workers |-> 0]
    /\ rotations = 0
    /\ batch = {}
    /\ batchK = 0
    /\ clk = [c \in Clocks |-> ClockCap(c)]
    /\ watch = observers
    /\ op = [w \in Workers |-> "none"]
    /\ opc = [w \in Workers |-> "idle"]
    /\ cand = [w \in Workers |-> 0]
    /\ apiErr = [w \in Workers |-> NoErr]
    /\ scrErr = [w \in Workers |-> << >>]
    /\ out = [w \in Workers |-> NoOut]
    /\ tally = [w \in Workers |-> NoTally]

\* ----------------------------------------------- paginating fetchProducts
\* What http.Get gives for one page: a network error, or a status and a
\* body that json.Unmarshal accepts or not, holding n records and the
\* page count nb.
PageAnswer(net, status, parses, n, nb) ==
    [net |-> net, status |-> status, parses |-> parses, n |-> n, nb |-> nb]

PageAnswers ==
    {PageAnswer(TRUE, 200, TRUE, 0, 0), PageAnswer(FALSE, 500, TRUE, 0, 0),
     PageAnswer(FALSE, 200, FALSE, 0, 0)}
      \cup {PageAnswer(FALSE, 200, TRUE, n, nb) : n \in 0..MaxRecs,
                                                   nb \in 0..MaxPages}

\* The records of page p: the i-th is named << p, i >>.
Records(p, n) == [i \in 1..n |-> << p, i >>]

\* `err != nil`, `resp.StatusCode != http.StatusOK`, or json.Unmarshal fails.
PageFails(a) == a.net \/ a.status # 200 \/ ~a.parses

\* A loop step that passes over a page.
SkipPage(p) == p + 2

\* `p++`
NextPage(p) == p + 1

\* The first page: any failure is returned; otherwise all := r.Products and
\* the loop starts at p := 2.
FetchFirst ==
    /\ ppc = "first"
    /\ \E a \in PageAnswers :
         /\ asked' = [asked EXCEPT ![1] = asked[1] + 1]
         /\ IF PageFails(a)
              THEN /\ ppc' = "failed"
                   /\ lost' = {1}
                   /\ UNCHANGED << page, nbPages, all, served >>
              ELSE /\ ppc' = "loop"
                   /\ page' = 2
                   /\ nbPages' = a.nb
                   /\ all' = Records(1, a.n)
                   /\ served' = [served EXCEPT ![1] = Records(1, a.n)]
                   /\ lost' = lost
    /\ UNCHANGED << scraper, pure >>

\* One pass of `for p := 2; p <= r.NbPages; p++`: a page that fails is
\* passed with `continue`, the others are appended to all.
FetchNext ==
    /\ ppc = "loop"
    /\ page <= nbPages
    /\ \E a \in PageAnswers :
         /\ asked' = [asked EXCEPT ![page] = asked[page] + 1]
         /\ IF PageFails(a)
              THEN /\ lost' = lost \cup {page}
                   /\ UNCHANGED << all, served >>
              ELSE /\ all' = all \o Records(page, a.n)
                   /\ served' = [served EXCEPT ![page] = Records(page, a.n)]
                   /\ lost' = lost
    /\ page' = NextPage(page)
    /\ UNCHANGED << ppc, nbPages, scraper, pure >>

\* `return all, nil` once p > r.NbPages.
PagesReturn ==
    /\ ppc = "loop"
    /\ page > nbPages
    /\ ppc' = "done"
    /\ UNCHANGED << page, nbPages, all, asked, served, lost, scraper, pure >>

\* ------------------------------------------------- page extraction
\* What the price expression of a product page captures ("" when it does
\* not match): a plain number, a number with separators, and separators
\* alone, which strconv.ParseFloat refuses.
PatternTexts == {"", "990", "1.234,56", ","}

\* What the three expressions of extractProductDetailFromHTMLPatterns find
\* in a product page.
DetailMarks == [sku : Fields, name : Fields, price : PatternTexts]

NoMarks == [sku |-> "", name |-> "", price |-> ""]

\* The "product" object of the state embedded in a product page, when the
\* state has one, by its "sku", "name" and "price.current".
StateProducts ==
    [present : {TRUE}, sku : Fields, name : Fields, price : {0, 990}]

NoProduct == [present |-> FALSE, sku |-> "", name |-> "", price |-> 0]

\* The nil *ProductDetail.
NoDetail ==
    [found |-> FALSE, sku |-> "", name |-> "",
     price |-> [current |-> Ratio(0, 1), original |-> Ratio(0, 1),
                discount |-> NoDiscount]]

\* The pages: the embedded state is absent, is not JSON, or parses; a
\* search page holds the records of search.results (none when the path is
\* missing) and the product blocks the patterns see, a product page the
\* "product" object and the marks the patterns see.
Blobs == {"absent", "unparsable", "parsed"}

SearchPages ==
    {[kind |-> "search", blob |-> b, results |-> r, blocks |-> k,
      product |-> NoProduct, marks |-> NoMarks] :
        b \in Blobs \ {"parsed"}, r \in {<< >>}, k \in ItemLists(MaxRecs)}
    \cup
    {[kind |-> "search", blob |-> "parsed", results |-> r, blocks |-> k,
      product |-> NoProduct, marks |-> NoMarks] :
        r \in ItemLists(MaxRecs), k \in ItemLists(MaxRecs)}

DetailPages ==
    {[kind |-> "detail", blob |-> b, results |-> << >>, blocks |-> << >>,
      product |-> NoProduct, marks |-> m] :
        b \in Blobs \ {"parsed"}, m \in DetailMarks}
    \cup
    {[kind |-> "detail", blob |-> "parsed", results |-> << >>,
      blocks |-> << >>, product |-> p, marks |-> m] :
        p \in StateProducts \cup {NoProduct}, m \in DetailMarks}

\* extractProductsFromHTMLPatterns on the blocks of a page: a block is
\* appended when it gave an identifier and a display name.
ProductsFromPatterns(blocks) == SelectSeq(blocks, HasIdAndName)

\* extractProductDetailFromHTMLPatterns on the marks of a page: nil when
\* neither a SKU nor a name was found; the price is assigned when the
\* captured text parses.
DetailFromPatterns(m) ==
    IF m.sku = "" /\ m.name = "" THEN NoDetail
    ELSE [found |-> TRUE, sku |-> m.sku, name |-> m.name,
          price |-> extractProductDetailFromHTMLPatterns(PatternPrice(m.price))]

\* mapToProductDetail on a "product" object: every field is copied when
\* it is there, and the detail is returned whatever it holds.
DetailFromState(p) ==
    [found |-> TRUE, sku |-> p.sku, name |-> p.name,
     price |-> mapToProductDetail(Ratio(p.price, 1), Ratio(p.price, 1))]

\* The products of the embedded state: the records of search.results
\* that have an identifier.
ProductsFromState(pg) ==
    IF pg.blob = "parsed" THEN SelectSeq(pg.results, HasId) ELSE << >>

\* An extraction that never looks at the patterns.
StateOnlyProducts(pg) ==
    [patterns |-> FALSE, products |-> ProductsFromState(pg)]

\* extractProductsFromHTML: the products of the state, or those of the
\* patterns when the state gave none.
extractProductsFromHTML(pg) ==
    IF Len(ProductsFromState(pg)) = 0
      THEN [patterns |-> TRUE, products |-> ProductsFromPatterns(pg.blocks)]
      ELSE [patterns |-> FALSE, products |-> ProductsFromState(pg)]

\* extractProductDetailFromHTML: the detail of the "product" object when
\* the state parses and has one, or that of the patterns.
extractProductDetailFromHTML(pg) ==
    IF pg.blob = "parsed" /\ pg.product.present
      THEN [patterns |-> FALSE, detail |-> DetailFromState(pg.product)]
      ELSE [patterns |-> TRUE, detail |-> DetailFromPatterns(pg.marks)]

\* ------------------------------------------------- fetch outcomes
\* The *ScrapingResult of FetchProductsAdvanced and
\* FetchProductDetailAdvanced; Source is "" when it is not assigned.
ScrapingResult(success, data, error, source) ==
    [success |-> success, data |-> data, error |-> error, source |-> source]

\* The parameter of one call, and what makeRequest returns to a tier: a
\* response with its status and body, or the error of the spent retries.
Queries == {"", "leche"}

TransportResults ==
    {[ok |-> TRUE, status |-> s, body |-> b, err |-> << >>] :
        s \in {200, 500}, b \in {"garbage", "records"}}
      \cup {[NoRes EXCEPT !.err = << "max retries exceeded", "net" >>]}

\* FetchProductsAdvanced(query), ra and rs being what makeRequest gives to
\* tryAPIEndpoint and to scrapeSearchPage.
FetchProductsAdvanced(query, ra, rs) ==
    IF query = ""
      THEN ScrapingResult(FALSE, "", << "query parameter cannot be empty" >>, "")
    ELSE IF tryAPIEndpoint(ra).ok
      THEN ScrapingResult(TRUE, tryAPIEndpoint(ra).data, << >>, "api")
    ELSE IF scrapeSearchPage(rs).ok
      THEN ScrapingResult(TRUE, scrapeSearchPage(rs).data, << >>, "scraping")
    ELSE ScrapingResult(FALSE, "",
             << "API failed" >> \o tryAPIEndpoint(ra).reason
               \o << "Scraping failed" >> \o scrapeSearchPage(rs).reason,
             "none")

\* FetchProductDetailAdvanced(sku), ras being what makeRequest gives for
\* each of the API endpoints in their order.
FetchProductDetailAdvanced(sku, ras, rs) ==
    LET won == {i \in 1..Len(ras) : tryAPIEndpoint(ras[i]).ok}
        first == CHOOSE i \in won : \A j \in won : i <= j
    IN  IF sku = ""
          THEN ScrapingResult(FALSE, "", << "SKU parameter cannot be empty" >>, "")
        ELSE IF won # {}
          THEN ScrapingResult(TRUE, tryAPIEndpoint(ras[first]).data, << >>, "api")
        ELSE IF scrapeProductPage(rs).ok
          THEN ScrapingResult(TRUE, scrapeProductPage(rs).data, << >>, "scraping")
        ELSE ScrapingResult(FALSE, "",
                 << "all methods failed - product may not exist or be blocked" >>,
                 "none")

\* The calls: the parameter, and the answers the upstream will give.
OutcomeInputs ==
    {[op |-> "search", param |-> q, apis |-> << ra >>, page |-> rs] :
        q \in Queries, ra \in TransportResults, rs \in TransportResults}
    \cup
    {[op |-> "detail", param |-> q, apis |-> ras, page |-> rs] :
        q \in Queries, ras \in [1..NumApiEndpoints -> TransportResults],
        rs \in TransportResults}

\* ------------------------------------------------- the shared scraper
\* The package state before any request: advancedScraper is nil and
\* scraperOnce has its zero value.
SingletonFresh ==
    /\ advancedScraper = 0
    /\ scraperOnce = [done |-> FALSE, m |-> 0]
    /\ gpos = [w \in Workers |-> "idle"]
    /\ holds = [w \in Workers |-> 0]
    /\ built = 0

\* The package state once getAdvancedScraper has returned for the first
\* time and no request is inside it.
SingletonBuilt ==
    /\ advancedScraper = 1
    /\ scraperOnce = [done |-> TRUE, m |-> 0]
    /\ gpos = [w \in Workers |-> "idle"]
    /\ holds = [w \in Workers |-> 0]
    /\ built = 1

\* The steps of getAdvancedScraper leave the scraper and the functions
\* checked on their own as they are.
SingletonOnly ==
    UNCHANGED << gov, currentUA, active, scenario, call, waited, rotations,
                 batch, batchK, clk, watch, opc, cand, apiErr, scrErr, out,
                 trail, tally, pure, pages >>

\* A Once that runs f for every caller that found done unset.
DoSlowAlways(done) == TRUE

\* sync.Once.doSlow under its mutex: `if o.done.Load() == 0`.
DoSlowRuns(done) == ~done

\* The goroutine of a request calls getAdvancedScraper from
\* fetchProductsAdvanced, fetchProductDetailAdvanced,
\* fetchPromotionsAdvanced or fetchCategoryAdvanced.
GetCall(w, o) ==
    /\ gpos[w] = "idle"
    /\ gpos' = [gpos EXCEPT ![w] = "load"]
    /\ op' = [op EXCEPT ![w] = o]
    /\ UNCHANGED << advancedScraper, scraperOnce, holds, built >>
    /\ SingletonOnly

\* sync.Once.Do: the load of done on the fast path.
OnceLoad(w) ==
    /\ gpos[w] = "load"
    /\ gpos' = [gpos EXCEPT ![w] = IF scraperOnce.done THEN "return" ELSE "lock"]
    /\ UNCHANGED << advancedScraper, scraperOnce, holds, built >>
    /\ UNCHANGED op
    /\ SingletonOnly

\* doSlow: o.m.Lock().
OnceLock(w) ==
    /\ gpos[w] = "lock"
    /\ scraperOnce.m = 0
    /\ scraperOnce' = [scraperOnce EXCEPT !.m = w]
    /\ gpos' = [gpos EXCEPT ![w] = "locked"]
    /\ UNCHANGED << advancedScraper, holds, built >>
    /\ UNCHANGED op
    /\ SingletonOnly

\* doSlow: the second look at done, under the mutex.
OnceCheck(w) ==
    /\ gpos[w] = "locked"
    /\ gpos' = [gpos EXCEPT ![w] =
                  IF DoSlowRuns(scraperOnce.done) THEN "call" ELSE "unlock"]
    /\ UNCHANGED << advancedScraper, scraperOnce, holds, built >>
    /\ UNCHANGED op
    /\ SingletonOnly

\* f(): advancedScraper = NewAdvancedScraper(), a new instance with its
\* own channel, permit goroutine and rotation counter.
Construct(w) ==
    /\ gpos[w] = "call"
    /\ built' = built + 1
    /\ advancedScraper' = built + 1
    /\ gpos' = [gpos EXCEPT ![w] = "store"]
    /\ UNCHANGED << scraperOnce, holds >>
    /\ UNCHANGED op
    /\ SingletonOnly

\* doSlow: the deferred o.done.Store(1).
OnceStore(w) ==
    /\ gpos[w] = "store"
    /\ scraperOnce' = [scraperOnce EXCEPT !.done = TRUE]
    /\ gpos' = [gpos EXCEPT ![w] = "unlock"]
    /\ UNCHANGED << advancedScraper, holds, built >>
    /\ UNCHANGED op
    /\ SingletonOnly

\* doSlow: the deferred o.m.Unlock().
OnceUnlock(w) ==
    /\ gpos[w] = "unlock"
    /\ scraperOnce' = [scraperOnce EXCEPT !.m = 0]
    /\ gpos' = [gpos EXCEPT ![w] = "return"]
    /\ UNCHANGED << advancedScraper, holds, built >>
    /\ UNCHANGED op
    /\ SingletonOnly

\* `return advancedScraper`.
GetReturn(w) ==
    /\ gpos[w] = "return"
    /\ holds' = [holds EXCEPT ![w] = advancedScraper]
    /\ gpos' = [gpos EXCEPT ![w] = "has"]
    /\ UNCHANGED << advancedScraper, scraperOnce, built >>
    /\ UNCHANGED op
    /\ SingletonOnly

\* The request is over.
Leave(w) ==
    /\ gpos[w] = "has"
    /\ holds' = [holds EXCEPT ![w] = 0]
    /\ gpos' = [gpos EXCEPT ![w] = "idle"]
    /\ op' = [op EXCEPT ![w] = "none"]
    /\ UNCHANGED << advancedScraper, scraperOnce, built >>
    /\ SingletonOnly

\* No function is being checked on its own.
PureAtRest ==
    /\ fn = ""
    /\ arg = << >>
    /\ val = << >>

\* The paginating fetchProducts is not running.
PagesAtRest ==
    /\ ppc = "off"
    /\ page = 0
    /\ nbPages = 0
    /\ all = << >>
    /\ asked = << >>
    /\ served = << >>
    /\ lost = {}

\* The paginating fetchProducts and the scraper are not running: a function
\* is applied on its own.
CoreAtRest == InitCore({}, "healthy", {}) /\ PagesAtRest /\ SingletonBuilt

\* generateFallbackSuggestions(arg) is called and returns.
CallSuggest ==
    /\ fn = "call generateFallbackSuggestions"
    /\ fn' = "generateFallbackSuggestions"
    /\ val' = generateFallbackSuggestions(arg)
    /\ UNCHANGED << arg, scraper, pages >>

\* main up to router.Run: the middleware is built, or the process ends.
Boot ==
    /\ fn = "main"
    /\ fn' = IF MiddlewareStarts(arg.variant, arg.env) THEN "listening"
             ELSE "fatal"
    /\ UNCHANGED << arg, val, scraper, pages >>

\* The server answers one request.
Serve ==
    /\ fn \in {"listening", "answered"}
    /\ \E m \in Methods, p \in Routes, k \in HeaderKeys, hc \in HandlerCodes :
         /\ arg' = [arg EXCEPT !.method = m, !.path = p, !.key = k]
         /\ val' = ServeHTTP(arg.variant, arg.env, m, p, k, hc)
    /\ fn' = "answered"
    /\ UNCHANGED << scraper, pages >>

\* s.client.Do(req) on one attempt, with its redirects, and the read of
\* the body.
DoRequest ==
    /\ fn = "call client.Do"
    /\ fn' = "client.Do"
    /\ val' = ClientDo(arg)
    /\ UNCHANGED << arg, scraper, pages >>

\* A tier turns a document into the product list of its answer.
MapProducts ==
    /\ fn = "call products"
    /\ fn' = "products"
    /\ val' = ProductsOf(arg.tier, arg.items)
    /\ UNCHANGED << arg, scraper, pages >>

\* A price string is normalized.
Normalize ==
    /\ fn = "call price"
    /\ fn' = "price"
    /\ val' = IF arg.by = "parsePrice" THEN parsePrice(arg.text)
              ELSE PatternPrice(arg.text)
    /\ UNCHANGED << arg, scraper, pages >>

\* A tier builds the Price of the ProductDetail it returns.
MapDetail ==
    /\ fn = "call detail"
    /\ fn' = "detail"
    /\ val' = DetailPrice(arg.tier, arg.current, arg.original)
    /\ UNCHANGED << arg, scraper, pages >>

\* A page goes through extractProductsFromHTML or
\* extractProductDetailFromHTML.
Extract ==
    /\ fn = "call extract"
    /\ fn' = "extract"
    /\ val' = IF arg.kind = "search" THEN extractProductsFromHTML(arg)
              ELSE extractProductDetailFromHTML(arg)
    /\ UNCHANGED << arg, scraper, pages >>

\* FetchProductsAdvanced or FetchProductDetailAdvanced is called and
\* returns.
Fetch ==
    /\ fn = "call fetch"
    /\ fn' = "fetch"
    /\ val' = IF arg.op = "search"
                THEN FetchProductsAdvanced(arg.param, arg.apis[1], arg.page)
                ELSE FetchProductDetailAdvanced(arg.param, arg.apis, arg.page)
    /\ UNCHANGED << arg, scraper, pages >>

InitScraper(act, scen, observers) ==
    /\ InitCore(act, scen, observers)
    /\ PureAtRest
    /\ PagesAtRest
    /\ SingletonBuilt

\* ------------------------------------------------------ specifications
\* One worker calling makeRequest again and again against a hostile upstream.
Init == InitScraper({1}, "any", {"rot", "seq"})

Next ==
    \/ Tick
    \/ GovSend
    \/ GovWake
    \/ \E w \in Workers :
          \/ Call(w)
          \/ Acquire(w)
          \/ Wake(w)
          \/ NewRequest(w)
          \/ Rotate(w)
          \/ Send(w)
          \/ Recv(w)
          \/ Judge(w)
          \/ Return(w)

Spec == Init /\ [][Next]_vars

\* Every worker calling makeRequest concurrently against a healthy upstream.
InitConc == InitScraper(Workers, "healthy", {"permit", "batch"})

NextConc ==
    \/ Tick
    \/ GovSend
    \/ GovWake
    \/ \E w \in Workers :
          \/ Call(w)
          \/ Acquire(w)
          \/ NewRequest(w)
          \/ Rotate(w)
          \/ Send(w)
          \/ Recv(w)
          \/ Judge(w)
          \/ Return(w)

SpecConc == InitConc /\ [][NextConc]_vars

\* The same, observing the rotation counter instead of the permits.
InitRace == InitScraper(Workers, "healthy", {"rot"})

SpecRace == InitRace /\ [][NextConc]_vars

\* Every worker calling makeRequest concurrently against an upstream that
\* answers or drops the connection.
InitRetry == InitScraper(Workers, "flaky", {"send"})

NextRetry ==
    \/ Tick
    \/ GovSend
    \/ GovWake
    \/ \E w \in Workers :
          \/ Call(w)
          \/ Acquire(w)
          \/ Wake(w)
          \/ NewRequest(w)
          \/ Rotate(w)
          \/ Send(w)
          \/ RecvJudge(w)
          \/ Return(w)

SpecRetry == InitRetry /\ [][NextRetry]_vars

\* One worker serving core operations one after another.
InitOps == InitScraper({1}, "plain", {})

NextOps ==
    \/ Tick
    \/ GovSend
    \/ GovWake
    \/ \E w \in Workers :
          \/ \E o \in Ops, p \in Params : StartOp(w, o, p)
          \/ OpCall(w)
          \/ DirectSend(w)
          \/ DirectRecv(w)
          \/ OpApi(w)
          \/ OpScrape(w)
          \/ Finish(w)
          \/ Acquire(w)
          \/ Wake(w)
          \/ NewRequest(w)
          \/ Rotate(w)
          \/ Send(w)
          \/ RecvJudge(w)

SpecOps == InitOps /\ [][NextOps]_vars

\* One worker serving searches and product details one after another
\* against an upstream that answers or drops the connection, its attempts
\* and permits counted.
InitTiers == InitScraper({1}, "flaky", {"count"})

NextTiers ==
    \/ Tick
    \/ GovSend
    \/ GovWake
    \/ \E w \in Workers :
          \/ \E o \in {"search", "detail"}, p \in Params : StartOp(w, o, p)
          \/ OpCall(w)
          \/ OpApi(w)
          \/ OpScrape(w)
          \/ Finish(w)
          \/ Acquire(w)
          \/ Wake(w)
          \/ NewRequest(w)
          \/ Rotate(w)
          \/ Send(w)
          \/ RecvJudge(w)

SpecTiers == InitTiers /\ [][NextTiers]_vars

\* The same under fair scheduling: time passes, the permit goroutine and
\* the goroutine of the request are scheduled, and client.Do returns (the
\* client has a Timeout).  No request has to arrive.
FairTiers ==
    /\ WF_vars(Tick)
    /\ WF_vars(GovSend)
    /\ WF_vars(GovWake)
    /\ \A w \in Workers :
          WF_vars(OpCall(w) \/ OpApi(w) \/ OpScrape(w) \/ Acquire(w)
                    \/ Wake(w) \/ NewRequest(w) \/ Rotate(w) \/ Send(w)
                    \/ RecvJudge(w))

SpecTiersFair == SpecTiers /\ FairTiers

\* One worker serving searches one after another against an upstream that
\* may do anything, each answer looked at before it is classified.
InitStatus == InitScraper({1}, "any", {})

NextStatus ==
    \/ Tick
    \/ GovSend
    \/ GovWake
    \/ \E w \in Workers :
          \/ \E p \in Params : StartOp(w, "search", p)
          \/ OpCall(w)
          \/ OpApi(w)
          \/ OpScrape(w)
          \/ Finish(w)
          \/ Acquire(w)
          \/ Wake(w)
          \/ NewRequest(w)
          \/ Rotate(w)
          \/ Send(w)
          \/ Recv(w)
          \/ Judge(w)

SpecStatus == InitStatus /\ [][NextStatus]_vars

\* Two workers calling makeRequest concurrently against a healthy
\* upstream, under fair scheduling: time passes, the permit goroutine and
\* the goroutines of the callers are scheduled, and a caller blocked on the
\* channel is served in its turn (the receivers of a Go channel wait in a
\* queue).  No call has to arrive.
InitWait == InitScraper({1, 2}, "healthy", {})

NextWait ==
    \/ Tick
    \/ GovSend
    \/ GovWake
    \/ \E w \in Workers :
          \/ Call(w)
          \/ Acquire(w)
          \/ NewRequest(w)
          \/ Rotate(w)
          \/ Send(w)
          \/ RecvJudge(w)
          \/ Return(w)

FairWait ==
    /\ WF_vars(Tick)
    /\ WF_vars(GovSend)
    /\ WF_vars(GovWake)
    /\ \A w \in Workers :
          /\ SF_vars(Acquire(w))
          /\ WF_vars(NewRequest(w) \/ Rotate(w) \/ Send(w) \/ RecvJudge(w)
                       \/ Return(w))

SpecWait == InitWait /\ [][NextWait]_vars /\ FairWait

\* The server of main with one of the middlewares and API_KEY set or not,
\* answering any sequence of requests.
InitAuth ==
    /\ CoreAtRest
    /\ fn = "main"
    /\ \E v \in AuthVariants, env \in EnvKeys :
         arg = [variant |-> v, env |-> env, method |-> "", path |-> "",
                key |-> ""]
    /\ val = << >>

NextAuth ==
    \/ Boot
    \/ Serve

SpecAuth == InitAuth /\ [][NextAuth]_vars

\* The server of main in front of the scraper: one worker serving the
\* requests that pass the middleware, against an upstream that answers or
\* drops the connection.
InitGate ==
    /\ InitCore({1}, "flaky", {"count"})
    /\ PagesAtRest
    /\ SingletonBuilt
    /\ fn = "main"
    /\ \E v \in AuthVariants, env \in EnvKeys :
         arg = [variant |-> v, env |-> env, method |-> "", path |-> "",
                key |-> ""]
    /\ val = << >>

NextGate ==
    \/ Boot
    \/ Tick
    \/ GovSend
    \/ GovWake
    \/ \E w \in Workers :
          \/ ServeOp(w)
          \/ OpCall(w)
          \/ DirectSend(w)
          \/ DirectRecv(w)
          \/ OpApi(w)
          \/ OpScrape(w)
          \/ Finish(w)
          \/ Acquire(w)
          \/ Wake(w)
          \/ NewRequest(w)
          \/ Rotate(w)
          \/ Send(w)
          \/ RecvJudge(w)

SpecGate == InitGate /\ [][NextGate]_vars

\* One document goes through one tier.
InitProducts ==
    /\ CoreAtRest
    /\ fn = "call products"
    /\ \E t \in ProductTiers, l \in ItemLists(MaxRecs) :
         arg = [tier |-> t, items |-> l]
    /\ val = << >>

NextProducts == MapProducts

SpecProducts == InitProducts /\ [][NextProducts]_vars

\* One search page or one product page is extracted.
InitExtract ==
    /\ CoreAtRest
    /\ fn = "call extract"
    /\ arg \in SearchPages \cup DetailPages
    /\ val = << >>

NextExtract == Extract

SpecExtract == InitExtract /\ [][NextExtract]_vars

\* One call of FetchProductsAdvanced or FetchProductDetailAdvanced.
InitOutcome ==
    /\ CoreAtRest
    /\ fn = "call fetch"
    /\ arg \in OutcomeInputs
    /\ val = << >>

NextOutcome == Fetch

SpecOutcome == InitOutcome /\ [][NextOutcome]_vars

\* The requests of a fresh process, each calling getAdvancedScraper.
InitOnce ==
    /\ InitCore({}, "healthy", {})
    /\ PagesAtRest
    /\ PureAtRest
    /\ SingletonFresh

NextOnce ==
    \E w \in Workers :
        \/ \E o \in Ops \ {"suggestions"} : GetCall(w, o)
        \/ OnceLoad(w)
        \/ OnceLock(w)
        \/ OnceCheck(w)
        \/ Construct(w)
        \/ OnceStore(w)
        \/ OnceUnlock(w)
        \/ GetReturn(w)
        \/ Leave(w)

SpecOnce == InitOnce /\ [][NextOnce]_vars

\* One price string, as the page writes it, is normalized.
InitParse ==
    /\ CoreAtRest
    /\ fn = "call price"
    /\ arg \in PriceInputs
    /\ val = << >>

NextParse == Normalize

SpecParse == InitParse /\ [][NextParse]_vars

\* One attempt of the HTTP client against any upstream answer.
InitRedirect ==
    /\ CoreAtRest
    /\ fn = "call client.Do"
    /\ arg \in Answers
    /\ val = NoResp

NextRedirect == DoRequest

SpecRedirect == InitRedirect /\ [][NextRedirect]_vars

\* One ProductDetail is built by one tier from any pair of prices.
InitPrice ==
    /\ CoreAtRest
    /\ fn = "call detail"
    /\ \E t \in DetailTiers, c \in Prices, o \in Prices :
         arg = [tier |-> t, current |-> c, original |-> o]
    /\ val = << >>

NextPrice == MapDetail

SpecPrice == InitPrice /\ [][NextPrice]_vars

\* generateFallbackSuggestions applied once to any sample term.
InitSuggest ==
    /\ CoreAtRest
    /\ fn = "call generateFallbackSuggestions"
    /\ arg \in Terms
    /\ val = << >>

NextSuggest == CallSuggest

SpecSuggest == InitSuggest /\ [][NextSuggest]_vars

\* fetchProducts with pagination, called once, against any upstream.
InitPages ==
    /\ InitCore({}, "healthy", {})
    /\ SingletonBuilt
    /\ PureAtRest
    /\ ppc = "first"
    /\ page = 1
    /\ nbPages = 0
    /\ all = << >>
    /\ asked = [q \in 1..(MaxPages + 1) |-> 0]
    /\ served = [q \in 1..(MaxPages + 1) |-> << >>]
    /\ lost = {}

NextPages ==
    \/ FetchFirst
    \/ FetchNext
    \/ PagesReturn

SpecPages == InitPages /\ [][NextPages]_vars

\* ---------------------------------------------------------------- claims
AcquiresPermit(w) == mpc[w] = "acquire" /\ mpc'[w] = "request"

StartsAttempt(w) == mpc[w] = "send" /\ mpc'[w] = "await"

InFlight == {w \in Workers : mpc[w] # "idle"}

\* C1: any two permits received from the rateLimiter channel are at least
\* one pacing interval apart (stated of the code, which breaks it).
C1_PermitsOneIntervalApart ==
    [][\A w \in Workers : AcquiresPermit(w) => clk["permit"] >= Interval]_vars

\* C2: of K fetches that wait for a permit together, the K-th is dispatched
\* no earlier than (K-1) intervals after the first (stated of the code,
\* which breaks it).
C2_BatchTakesKMinusOneIntervals ==
    [][\A w \in Workers :
          (AcquiresPermit(w) /\ w \in batch) => clk["batch"] >= batchK * Interval]_vars

\* C3: with two or more fetches in flight, two consecutive attempt starts
\* (first attempts and retries alike) are at least one interval apart
\* (stated of the code, which breaks it).
C3_AttemptsOneIntervalApart ==
    [][\A w \in Workers :
          (StartsAttempt(w) /\ Cardinality(InFlight) >= 2)
              => clk["send"] >= Interval]_vars

\* C5: after an attempt refused by CheckRedirect (queue-it host, or too many
\* redirects) the same makeRequest call makes no further attempt (stated of
\* the code, which breaks it).
C5_StructuralFailureEndsCall ==
    \A w \in Workers :
        lastErr[w] \in {"queueit", "redirects"} => mpc[w] # "await"

\* C6: with concurrent fetches no increment of the rotation counter is
\* lost: once no increment is half done, the counter equals the number of
\* attempts made, modulo the number of identities (stated of the code, which
\* breaks it).
C6_CounterCountsAttempts ==
    (\A w \in Workers : mpc[w] # "rotate") => currentUA = rotations

\* C9: one makeRequest call makes at most five attempts; before attempt i
\* (2..5) it waits the (i-1)-th of the delays 1, 3, 7, 15 seconds, and it
\* waits nothing before attempt 1.  attempt[w] counts the attempts that
\* have failed, so attempt number attempt[w] + 1 is the one under way.
C9_FiveAttemptsWithBackoff ==
    \A w \in Workers :
        /\ attempt[w] <= 5
        /\ mpc[w] \in {"request", "rotate", "send", "await", "classify"}
              => attempt[w] + 1 <= 5
        /\ mpc[w] = "sleep"
              => /\ attempt[w] \in 1..4
                 /\ waited[w] + rem[w] = << 1, 3, 7, 15 >>[attempt[w]]
        /\ (mpc[w] = "request" /\ attempt[w] > 0)
              => waited[w] = << 1, 3, 7, 15 >>[attempt[w]]
        /\ (mpc[w] = "request" /\ attempt[w] = 0) => waited[w] = 0

\* The fifth attempt is on the wire, after all four delays.
C9_FifthAttemptInFlight ==
    \E w \in Workers : mpc[w] = "await" /\ attempt[w] = 4

\* C10: a body that holds an anti-bot marker is never returned as a
\* success, whatever the status; the attempt that read it fails, and the
\* call goes on to the next attempt while fewer than five have been made.
C10_MarkedBodyNeverSucceeds ==
    /\ [](\A w \in Workers : res[w].ok => res[w].body # "marker")
    /\ [][\A w \in Workers :
            (mpc[w] = "classify" /\ got[w].err = "nil"
                 /\ got[w].body = "marker" /\ mpc'[w] # "classify")
              => /\ ~res'[w].ok
                 /\ attempt'[w] = attempt[w] + 1
                 /\ mpc'[w] = IF attempt[w] + 1 < 5 THEN "sleep" ELSE "done"]_vars

\* A retry is on the wire after an attempt that read a marked body.
C10_RetryAfterMarkedBody ==
    \E w \in Workers :
        mpc[w] = "await" /\ lastErr[w] = "antibot" /\ attempt[w] > 0

\* A request of worker w is on the wire.
OnWire(w) == mpc[w] = "await" \/ opc[w] = "directwait"

\* Worker w is inside a makeRequest call that has received its permit.
HoldsPermit(w) ==
    mpc[w] \in {"request", "rotate", "send", "await", "classify", "sleep"}

\* C4: no upstream request of any core operation is on the wire unless its
\* worker acquired a permit for that fetch (stated of the code, which
\* breaks it).
C4_NoRequestWithoutPermit ==
    \A w \in Workers : OnWire(w) => HoldsPermit(w)

\* C7: every core operation ends with exactly one of a result or a failure
\* that has a non-empty reason, and never panics (stated of the code, which
\* breaks it).
C7_ResultOrReasonNeverPanic ==
    \A w \in Workers :
        opc[w] = "done"
          => /\ ~out[w].panic
             /\ out[w].ok => out[w].reason = << >>
             /\ ~out[w].ok => out[w].reason # << >>

Contains(text, part) ==
    \E i \in 0..(Len(text) - Len(part)) :
        SubSeq(text, i + 1, i + Len(part)) = part

\* Both tiers of the operation of worker w have failed with a reason.
BothTiersFailed(w) ==
    /\ opc[w] = "done"
    /\ op[w] \in {"search", "detail", "promotions", "category"}
    /\ ~apiErr[w].nil
    /\ scrErr[w] # << >>

\* C8: when both tiers fail, the failure reason returned contains the API
\* tier's reason and the scraping tier's reason (stated of the code, which
\* breaks it).
C8_CompositeNamesBothReasons ==
    \A w \in Workers :
        BothTiersFailed(w)
          => /\ Contains(out[w].reason, apiErr[w].msg)
             /\ Contains(out[w].reason, scrErr[w])

\* The records of pages 1..p that were parsed, in page order.
RECURSIVE Gather(_)
Gather(p) == IF p = 0 THEN << >> ELSE Gather(p - 1) \o served[p]

C12_TagNamesProducingTier ==
    \A w \in Workers :
        (opc[w] = "done" /\ out[w].ok
            /\ op[w] \in {"search", "detail", "promotions", "category"})
          => /\ out[w].tier \in {"api", "scraping"}
             /\ out[w].source = out[w].tier

\* C17: for every core operation an empty parameter is rejected with 400
\* before any network activity: the rejecting step takes no permit, enters
\* no makeRequest and sends nothing, the operation is over with it, and its
\* answer differs in status and reason from that of an upstream failure.
C17_EmptyParameterRejectedOffline ==
    /\ [](\A w \in Workers :
            /\ out[w].code = 400
                 => /\ opc[w] = "done"
                    /\ mpc[w] = "idle"
                    /\ ~out[w].ok
                    /\ out[w].reason = << RequiredMessage(op[w]) >>
            /\ (opc[w] = "done" /\ ~out[w].ok) => out[w].code \in {400, 500}
            /\ out[w].code = 500
                 => out[w].reason # << RequiredMessage(op[w]) >>)
    /\ [][\A w \in Workers :
            /\ \A o \in Ops :
                 StartOp(w, o, "empty")
                   => /\ out'[w].code = 400
                      /\ opc'[w] = "done"
                      /\ UNCHANGED << chan, mpc, currentUA >>
            /\ opc[w] = "done" => opc'[w] \in {"done", "idle"}
            /\ (opc[w] = "done" /\ opc'[w] = "idle")
                 => UNCHANGED << chan, mpc, currentUA >>]_vars

\* An operation has been rejected for its empty parameter.
C17_RejectedWith400 ==
    \E w \in Workers : opc[w] = "done" /\ out[w].code = 400

\* C19: the local fallback answers a term of at least 3 characters whose
\* first 3 characters are a prefix of the table with exactly that prefix's
\* list ("lec": leche, leche descremada, leche entera, leche condensada,
\* lechuga), and any other term with exactly the five strings term + " " +
\* q for q = natural, light, premium, casero, integral, in that order.
C19_FallbackListByPrefix ==
    fn = "generateFallbackSuggestions" =>
       LET known == Len(arg) >= 3 /\ SubSeq(arg, 1, 3) \in DOMAIN commonSuggestions
           q == << "natural", "light", "premium", "casero", "integral" >>
       IN  /\ known => val = commonSuggestions[SubSeq(arg, 1, 3)]
           /\ (known /\ SubSeq(arg, 1, 3) = "lec")
                => val = << "leche", "leche descremada", "leche entera",
                            "leche condensada", "lechuga" >>
           /\ ~known => /\ Len(val) = 5
                        /\ \A i \in 1..5 : val[i] = arg \o " " \o q[i]

\* The fallback has answered a longer term that begins with "lec".
C19_AnsweredLeche ==
    fn = "generateFallbackSuggestions" /\ arg = "leche" /\ val[5] = "lechuga"

\* C18: whatever the upstream answers (network failure, non-200, malformed
\* JSON, empty list, or a list), the suggestions operation on a non-empty
\* term ends with a non-empty list and no failure: the step that receives
\* the upstream's answer always finishes the operation successfully.
C18_SuggestionsNeverFail ==
    /\ [](\A w \in Workers :
            (opc[w] = "done" /\ op[w] = "suggestions" /\ out[w].code # 400)
              => /\ out[w].ok
                 /\ ~out[w].panic
                 /\ out[w].data = "records"
                 /\ out[w].code = 200
                 /\ out[w].tier \in {"api", "fallback"})
    /\ [][\A w \in Workers :
            (op[w] = "suggestions" /\ opc[w] = "directwait" /\ opc'[w] # opc[w])
              => /\ opc'[w] = "done"
                 /\ out'[w].ok
                 /\ mpc'[w] = "idle"]_vars

\* A suggestions operation has been answered from the local table.
C18_AnsweredLocally ==
    \E w \in Workers :
        /\ opc[w] = "done"
        /\ op[w] = "suggestions"
        /\ out[w].ok
        /\ out[w].tier = "fallback"

\* C13: identity rotation is a round robin over the NumUA = 6 identities:
\* in a sequential run each attempt carries the identity that follows the
\* one of the attempt before it (the first one follows the initial counter
\* 0), any NumUA consecutive attempts carry NumUA distinct identities, and
\* the attempt NumUA places after another carries the same identity.
C13_RoundRobinIdentities ==
    /\ NumUA = 6
    /\ \A i \in 1..Len(trail) : trail[i] \in 0..(NumUA - 1)
    /\ \A i \in 1..(Len(trail) - 1) : trail[i + 1] = (trail[i] + 1) % NumUA
    /\ \A i \in 1..(Len(trail) - NumUA + 1) :
          Cardinality({trail[j] : j \in i..(i + NumUA - 1)}) = NumUA
    /\ \A i \in 1..(Len(trail) - NumUA) : trail[i + NumUA] = trail[i]
    /\ (Len(trail) > 0 /\ Len(trail) <= NumUA) => trail[1] = 1

\* NumUA + 1 attempts have been made in a row.
C13_SevenAttemptsMade ==
    Len(trail) = NumUA + 1 /\ trail[1] = trail[NumUA + 1]

\* A GET request for a route other than /health has been answered.
ProtectedAnswered ==
    fn = "answered" /\ arg.method = "GET" /\ arg.path # "/health"

\* C14: a request for a protected endpoint without X-API-Key is answered
\* 401, and one with a key that is not API_KEY is answered 403.
C14_Missing401Wrong403 ==
    ProtectedAnswered =>
       /\ arg.key = "" => val.code = 401
       /\ (arg.key # "" /\ arg.key # arg.env) => val.code = 403

\* C15: a request without X-API-Key (or with an empty one) never reaches
\* the handler of a protected endpoint, whatever API_KEY is, unset
\* included.
C15_NoKeyNeverAuthorized ==
    (ProtectedAnswered /\ arg.key = "") => val.by = "auth"

\* C16: GET /health is answered 200 with status "ok" without any key, and
\* every other endpoint is refused to a request whose key is not API_KEY.
C16_HealthOpenRestProtected ==
    (fn = "answered" /\ arg.method = "GET") =>
       /\ (arg.path = "/health" /\ arg.key = "")
             => val.code = 200 /\ val.status = "ok"
       /\ (arg.path # "/health" /\ arg.key # arg.env) => val.by = "auth"

\* C20: every ProductDetail the detail operation returns, whichever tier
\* built it, has discount = (original - current) / original * 100 when
\* original > 0 and current > 0, and 0 otherwise.
C20_DiscountDerived ==
    fn = "detail" =>
       SameRatio(val.discount,
                 IF val.original > 0 /\ val.current > 0
                   THEN Ratio(100 * (val.original - val.current), val.original)
                   ELSE Ratio(0, 1))

\* C24: one makeRequest call takes exactly one permit, before its first
\* attempt: a permit leaves the channel only in the step of a caller that
\* has made no attempt yet; a call comes to the channel only from its
\* entry and leaves it only with a permit; a retry resumes at the request,
\* taking nothing from the channel.
C24_OnePermitPerCall ==
    [][/\ chan' < chan
           => \E w \in Workers :
                 /\ mpc[w] = "acquire" /\ mpc'[w] = "request"
                 /\ attempt[w] = 0 /\ lastErr[w] = "nil"
                 /\ \A v \in Workers \ {w} : mpc'[v] = mpc[v]
       /\ \A w \in Workers :
            /\ (mpc[w] # "acquire" /\ mpc'[w] = "acquire") => mpc[w] = "idle"
            /\ (mpc[w] = "acquire" /\ mpc'[w] # "acquire")
                 => chan = 1 /\ chan' = 0 /\ mpc'[w] = "request"
            /\ (mpc[w] = "sleep" /\ mpc'[w] # "sleep")
                 => mpc'[w] = "request" /\ chan' = chan /\ attempt[w] \in 1..4
            /\ (mpc[w] \in {"request", "rotate", "send", "await", "classify", "sleep"}
                  /\ mpc'[w] # mpc[w])
                 => mpc'[w] # "acquire"]_vars

\* A retry is on the wire while a fresh permit sits in the channel, untaken.
C24_RetryLeavesPermit ==
    \E w \in Workers : mpc[w] = "await" /\ attempt[w] = 4 /\ chan = 1

\* C25: an attempt answered 429 or 503 is never returned as a success: it
\* sets lastErr and is followed by the backoff of the next attempt when an
\* attempt is left, by the final failure otherwise.
C25_RateLimitedNeverSucceeds ==
    /\ [](\A w \in Workers :
            (mpc[w] = "done" /\ res[w].ok) => res[w].status \notin {429, 503})
    /\ [][\A w \in Workers :
            (mpc[w] = "classify" /\ mpc'[w] # "classify"
               /\ got[w].err = "nil" /\ got[w].status \in {429, 503})
              => /\ lastErr'[w] = (IF got[w].status = 429 THEN "http429" ELSE "http503")
                 /\ attempt'[w] = attempt[w] + 1
                 /\ IF attempt[w] + 1 < 5
                      THEN mpc'[w] = "sleep" /\ res'[w] = res[w]
                      ELSE mpc'[w] = "done" /\ ~res'[w].ok]_vars

\* A 503 has been answered and the next attempt is being waited for.
C25_BackingOffAfter503 ==
    \E w \in Workers : mpc[w] = "sleep" /\ lastErr[w] = "http503" /\ attempt[w] = 1

\* C26: when the fifth attempt fails, makeRequest returns a failure whose
\* reason is that attempt's error, whatever the earlier ones were.
C26_FailureCarriesLastError ==
    /\ [](\A w \in Workers :
            (mpc[w] = "done" /\ attempt[w] = 5)
              => /\ ~res[w].ok
                 /\ res[w].err = << "max retries exceeded", lastErr[w] >>)
    /\ [][\A w \in Workers :
            (mpc[w] = "classify" /\ mpc'[w] # "classify" /\ attempt[w] = 4
               /\ (got[w].err # "nil" \/ got[w].status \in {429, 503}
                     \/ got[w].body = "marker"))
              => /\ mpc'[w] = "done"
                 /\ ~res'[w].ok
                 /\ res'[w].err[2] =
                      (IF got[w].err # "nil" THEN got[w].err
                       ELSE IF got[w].status = 429 THEN "http429"
                       ELSE IF got[w].status = 503 THEN "http503"
                       ELSE "antibot")]_vars

\* The fifth attempt is being judged and its error is not the fourth's.
C26_FifthErrorDiffers ==
    \E w \in Workers :
        /\ mpc[w] = "classify" /\ attempt[w] = 4
        /\ lastErr[w] = "net" /\ got[w].err = "nil" /\ got[w].status = 503

\* The call has failed for good after five attempts.
C26_BudgetSpent ==
    \E w \in Workers :
        /\ mpc[w] = "done" /\ attempt[w] = 5
        /\ res[w].err = << "max retries exceeded", "http503" >>

\* C27: the first attempt answered 2xx without a marker ends the call at
\* once with that response: no attempt is counted, no delay started and the
\* identity counter is left alone, then and until the caller has the result.
C27_CleanAnswerReturnsAtOnce ==
    [][\A w \in Workers :
         /\ (mpc[w] = "classify" /\ mpc'[w] # "classify"
               /\ got[w].err = "nil" /\ got[w].status \in 200..299
               /\ got[w].body # "marker")
              => /\ mpc'[w] = "done"
                 /\ res'[w] = [ok |-> TRUE, status |-> got[w].status,
                               body |-> got[w].body, err |-> << >>]
                 /\ UNCHANGED << attempt, rem, currentUA, chan >>
         /\ (mpc[w] = "done" /\ res[w].ok)
              => /\ mpc'[w] \in {"done", "idle"}
                 /\ (active = {w} => currentUA' = currentUA)]_vars

\* A call has succeeded on its third attempt.
C27_SucceededAfterRetries ==
    \E w \in Workers : mpc[w] = "done" /\ res[w].ok /\ attempt[w] = 2

\* C28: an attempt whose chain has at most 5 redirects, none to the
\* queue-it host, is not failed for its redirect count; "too many
\* redirects" is the error only of a chain of more than 5.
C28_FiveRedirectsFollowed ==
    (fn = "client.Do" /\ ~arg.net /\ arg.qat = 0) =>
       (val.err = "redirects" <=> arg.redirs > 5)

\* C23: a price written with '.' between thousands and ',' before the
\* decimals, with or without a currency symbol in front, is normalized to
\* the number it writes ("1.234,56" to 1234.56).
C23_PriceTextToNumber ==
    fn = "price" =>
       /\ SameRatio(val, Ratio(arg.whole * arg.decimals.den + arg.decimals.num,
                               arg.decimals.den))
       /\ arg.text = "1.234,56" => SameRatio(val, Ratio(123456, 100))

\* "$ 1.234,56" has been normalized by parsePrice.
C23_ParsedWithSymbol ==
    fn = "price" /\ arg.text = "$ 1.234,56" /\ val.num = 123456 /\ val.den = 100

\* C21: every product that search, promotions or category hand to the
\* caller, from whichever tier, has a non-empty identifier or a non-empty
\* display name.
C21_NoBlankProductSurfaced ==
    (fn = "products" /\ val.surfaced) =>
       \A i \in 1..Len(val.products) :
           val.products[i].id # "" \/ val.products[i].name # ""

C30_ParseErrorDegradesToPage ==
    \A w \in Workers :
        (/\ op[w] \in {"search", "detail"} /\ opc[w] = "done"
         /\ out[w].code \in {200, 500}
         /\ (~out[w].ok \/ out[w].data # "records"))
          => scrErr[w] # << >>

\* C31: pattern extraction returns a summary only when it has an
\* identifier and a display name, and a detail only when it has a SKU or a
\* name, and a price.
C31_PartialRecordsDiscarded ==
    (fn = "extract" /\ val.patterns) =>
       IF arg.kind = "search"
         THEN \A i \in 1..Len(val.products) :
                  val.products[i].id # "" /\ val.products[i].name # ""
         ELSE val.detail.found =>
                  /\ val.detail.sku # "" \/ val.detail.name # ""
                  /\ val.detail.price.current.num > 0

\* C32: on a search page and on a product page the patterns are applied
\* exactly when the embedded state is absent, does not parse, or gives no
\* result; when the state gives a usable record its result is returned
\* and the patterns are not applied.
C32_PatternsIffStateGaveNothing ==
    fn = "extract" =>
       LET nothing ==
               \/ arg.blob # "parsed"
               \/ IF arg.kind = "search"
                    THEN \A i \in 1..Len(arg.results) : arg.results[i].id = ""
                    ELSE ~arg.product.present
           usable ==
               /\ arg.blob = "parsed"
               /\ IF arg.kind = "search"
                    THEN \E i \in 1..Len(arg.results) : arg.results[i].id # ""
                    ELSE /\ arg.product.present
                         /\ arg.product.sku # "" \/ arg.product.name # ""
       IN  /\ val.patterns <=> nothing
           /\ usable =>
                /\ ~val.patterns
                /\ IF arg.kind = "search"
                     THEN val.products = SelectSeq(arg.results, HasId)
                     ELSE /\ val.detail.found
                          /\ val.detail.sku = arg.product.sku
                          /\ val.detail.name = arg.product.name
                          /\ val.detail.price.current = Ratio(arg.product.price, 1)

\* A search page whose state and whose blocks both hold a product has
\* been answered from the state alone.
C32_StateWonOverPatterns ==
    /\ fn = "extract" /\ arg.kind = "search" /\ arg.blob = "parsed"
    /\ arg.results = << [id |-> "x", name |-> ""] >>
    /\ arg.blocks = << [id |-> "x", name |-> "x"] >>
    /\ ~val.patterns
    /\ val.products = arg.results

\* C34: every outcome returned by the search and detail operations carries
\* a provenance tag among api, scraping, cache and none, and every failed
\* outcome, the one for an empty parameter included, is tagged none.
C34_OutcomeTagged ==
    fn = "fetch" =>
       /\ val.source \in {"api", "scraping", "cache", "none"}
       /\ ~val.success => val.source = "none"

\* C35: makeRequest retries only after a transport error, a 429, a 503 or
\* a body with the marker; a response with another status (500) is
\* returned after that one attempt with no error, and it is the tier that
\* called makeRequest that turns the status other than 200 into its
\* failure.
C35_OtherStatusReturnedAtOnce ==
    [][\A w \in Workers :
         LET retried == \/ got[w].err # "nil"
                        \/ got[w].status \in {429, 503}
                        \/ got[w].body = "marker"
         IN  /\ (mpc[w] = "classify" /\ mpc'[w] # "classify" /\ ~retried) =>
                  /\ mpc'[w] = "done"
                  /\ res'[w] = [ok |-> TRUE, status |-> got[w].status,
                                body |-> got[w].body, err |-> << >>]
                  /\ attempt'[w] = attempt[w]
                  /\ lastErr'[w] = lastErr[w]
             /\ (mpc[w] = "classify" /\ mpc'[w] # "classify" /\ retried) =>
                  /\ ~res'[w].ok
                  /\ attempt'[w] = attempt[w] + 1
                  /\ mpc'[w] = IF attempt[w] < 4 THEN "sleep" ELSE "done"
             /\ (/\ opc[w] = "api" /\ mpc[w] = "done" /\ mpc'[w] = "idle"
                 /\ res[w].ok /\ res[w].status # 200) =>
                  /\ apiErr'[w] = [nil |-> FALSE,
                                   msg |-> << "API returned status",
                                              ToString(res[w].status) >>]
                  /\ opc'[w] = "scrape"
                  /\ out'[w] = NoOut
             /\ (/\ opc[w] = "scrape" /\ mpc[w] = "done" /\ mpc'[w] = "idle"
                 /\ res[w].ok /\ res[w].status # 200) =>
                  /\ scrErr'[w] = << "search page returned status",
                                     ToString(res[w].status) >>
                  /\ ~out'[w].ok]_vars

\* The first attempt of the API tier was answered 500 without marker, was
\* returned at once, and the tier has failed on the status.
C35_Status500FailedTheTier ==
    \E w \in Workers :
        /\ opc[w] = "scrape" /\ mpc[w] = "idle"
        /\ apiErr[w] = [nil |-> FALSE, msg |-> << "API returned status", "500" >>]

C37_NoSuccessfulEmptyList ==
    /\ [](\A w \in Workers :
            (/\ op[w] \in {"promotions", "category", "suggestions"}
             /\ opc[w] = "done" /\ out[w].ok)
              => out[w].data = "records")
    /\ [][\A w \in Workers :
            (/\ op[w] \in {"promotions", "category", "suggestions"}
             /\ opc[w] = "directwait" /\ opc'[w] # "directwait")
              => \/ /\ opc'[w] = "done" /\ out'[w].ok
                    /\ out'[w].tier = "api" /\ out'[w].data = "records"
                 \/ /\ op[w] = "suggestions" /\ opc'[w] = "done"
                    /\ out'[w].tier = "fallback"
                 \/ /\ op[w] # "suggestions" /\ opc'[w] = "scrape"
                    /\ out'[w] = NoOut]_vars

\* The promotions API answered without error and without products, and
\* the page is being tried.
C37_EmptyAnswerSentToPage ==
    \E w \in Workers :
        /\ op[w] = "promotions" /\ opc[w] = "scrape"
        /\ apiErr[w] = [nil |-> TRUE, msg |-> << >>]

\* C38: however the first requests interleave, NewAdvancedScraper is
\* called at most once, so there is one instance with its permit
\* goroutine, channel and rotation counter, and every request gets that
\* instance from getAdvancedScraper.
C38_OneScraperForAll ==
    /\ built <= 1
    /\ advancedScraper = built
    /\ \A w \in Workers :
          gpos[w] = "has" => (built = 1 /\ holds[w] = 1)

\* Two first requests met inside the Once: one has built the instance and
\* still holds the mutex the other waits for.
C38_SecondWaitsForFirst ==
    \E w \in Workers, v \in Workers :
        /\ w # v
        /\ gpos[w] = "unlock" /\ gpos[v] = "lock"
        /\ built = 1

\* C39: a request that the API-key middleware rejects reaches no handler
\* and leaves the scraper as it was: no operation starts, no request goes
\* upstream, no permit is taken, the rotation counter does not move.
C39_RejectedLeavesCoreAlone ==
    /\ [][(/\ fn' = "answered" /\ val'.by = "auth"
            /\ << fn, arg, val >>' # << fn, arg, val >>)
            => UNCHANGED << chan, gpc, grem, currentUA, mpc, urlOK, attempt,
                            lastErr, rem, ua, used, got, res, tally, op, opc,
                            cand, apiErr, scrErr, out >>]_vars
    /\ []((fn = "answered" /\ val.by = "auth") =>
            \A w \in Workers :
                /\ op[w] = "none" /\ opc[w] = "idle" /\ mpc[w] = "idle"
                /\ tally[w] = NoTally)

\* A request with a wrong key has been answered 401 or 403 after an
\* admitted one had moved the rotation counter.
C39_RejectedAfterWork ==
    /\ fn = "answered" /\ val.by = "auth" /\ arg.key = "other"
    /\ arg.path = "/productos"
    /\ currentUA > 0

\* C33: under fair scheduling every worker that waits for a permit gets
\* one, the channel is refilled whenever it has been emptied, and a worker
\* that waits holds up nobody else: another worker that has its permit
\* comes to the end of its call while the first still waits or not.
C33_NoWaiterStarves ==
    /\ \A w \in Workers : (mpc[w] = "acquire") ~> (mpc[w] = "request")
    /\ (chan = 0) ~> (chan = 1)
    /\ \A w \in Workers : \A v \in Workers \ {w} :
          (mpc[w] = "acquire" /\ mpc[v] = "request") ~> (mpc[v] = "done")

\* Two workers are waiting for a permit and the channel is empty.
C33_TwoWaiting ==
    /\ chan = 0
    /\ mpc[1] = "acquire" /\ mpc[2] = "acquire"

====
